---------------------------- MODULE Spec2Model ----------------------------
(***************************************************************************)
(* A model of mysoku_renamer: the file namer (file_namer.py), the price    *)
(* normalizer (price_normalizer.py), the information parser                *)
(* (info_parser.py) and the file manager (file_manager.py).                *)
(*                                                                         *)
(* A Python str is a sequence of Unicode code points (naturals); bytes are *)
(* a sequence of naturals below 256.  An Optional[str] and an              *)
(* Optional[int] are records [t, v] whose tag t tells None from a value,   *)
(* so that Python's truthiness (`if info.name and info.amount`) is         *)
(* something the model computes.                                           *)
(***************************************************************************)
EXTENDS Integers, Sequences, FiniteSets, TLC

VARIABLES
    info,            \* generate_filename: the ParsedInfoRaw argument
    original_path,   \* generate_filename: the name of the original file
    filename,        \* generate_filename: the returned filename
    t_filename,      \* _truncate_filename: the filename argument
    t_max_bytes,     \* _truncate_filename: the max_bytes argument
    t_result,        \* _truncate_filename: the returned string
    dirs,            \* the file system: the directories and their files
    platform,        \* "posix" or "nt": what os.rename does to an existing target
    now,             \* int(time.time())
    strict_mode,     \* FileManager.strict_mode
    operation_log,   \* FileManager.operation_log
    result,          \* the FileOperationResult of the last rename_file / copy_file
    raised,          \* whether the last call raised instead of returning
    calls,           \* the number of rename_file / copy_file calls made
    desired,         \* collision resolution: the desired filename
    desired_dir,     \* collision resolution: the directory the file goes to
    namer_choice,    \* the name generate_collision_free_filename returned
    manager_choice,  \* the name FileManager._get_collision_free_name returned
    pdf_text,        \* the text extracted from a PDF
    p_unspecified,   \* check_price_unspecified(text)
    p_amount_jpy,    \* parse_amount_jpy(text)
    p_amounts,       \* extract_multiple_amounts(text)
    p_kind,          \* detect_kind(text)
    p_extract,       \* extract_amount(text, kind), for every kind
    p_info,          \* parse_info(text)
    c_result,        \* clean_name(text)
    n_s,             \* normalize_number_string: the argument s
    n_result,        \* normalize_number_string(s)
    n_twice,         \* normalize_number_string(normalize_number_string(s))
    f_amount,        \* format_price_sell, format_price_rent: the amount
    f_sell,          \* format_price_sell(amount)
    f_rent,          \* format_price_rent(amount)
    pc,              \* two concurrent callers: where each caller is in its call
    chosen,          \* two concurrent callers: the name each caller resolved
    outcome,         \* two concurrent callers: the result each caller got
    error_tsv,       \* write_error_tsv: the rows of the file at output_path
    error_calls,     \* write_error_tsv: the calls made so far, in call order
    error_written,   \* write_error_tsv: the value the last call returned
    entries,         \* rollback_from_tsv: the entries parse_tsv_file returned
    dry_run,         \* rollback_from_tsv: the dry_run argument
    entry_index,     \* rollback_from_tsv: the number of the entry the loop is at
    action,          \* rollback_from_tsv: the action determined for the last entry
    rollback_error,  \* rollback_from_tsv: what execute_rollback_action returned last
    rollback_result, \* rollback_from_tsv: the RollbackResult so far
    pdfs,            \* cmd_apply: the PDFs find_pdfs returned
    outdir,          \* cmd_apply: args.outdir, the directory files are copied to, or none
    apply_pc,        \* cmd_apply: where the run is
    apply_index,     \* cmd_apply: the number of the PDF the loop is at
    process_result,  \* cmd_apply: the ProcessResult of the PDF the loop is at
    analysed,        \* cmd_apply: the PDFs _process_single_pdf was called on
    results,         \* cmd_apply: results
    rollback_entries, \* cmd_apply: rollback_entries
    errors,          \* cmd_apply: errors
    stats,           \* cmd_apply: stats
    exit_code,       \* cmd_apply: the value returned
    rollback_tsv,    \* cmd_apply: the rollback TSV
    apply_tsv        \* cmd_apply: the TSV of the apply results

namerVars == <<info, original_path, filename>>
truncVars == <<t_filename, t_max_bytes, t_result>>
fsVars == <<dirs, platform, now, strict_mode, operation_log, result, raised, calls>>
collideVars == <<desired, desired_dir, namer_choice, manager_choice>>
parseVars == <<pdf_text, p_unspecified, p_amount_jpy, p_amounts, p_kind, p_extract, p_info>>
pureVars == <<c_result, n_s, n_result, n_twice, f_amount, f_sell, f_rent>>
raceVars == <<pc, chosen, outcome>>
tsvVars == <<error_tsv, error_calls, error_written>>
rollbackVars == <<entries, dry_run, entry_index, action, rollback_error, rollback_result>>
applyVars ==
    <<pdfs, outdir, apply_pc, apply_index, process_result, analysed, results,
      rollback_entries, errors, stats, exit_code, rollback_tsv, apply_tsv>>
runVars == <<raceVars, tsvVars, rollbackVars, applyVars>>
vars == <<namerVars, truncVars, fsVars, collideVars, parseVars, pureVars, runVars>>

----------------------------------------------------------------------------
(* Python values *)

NoneStr == [t |-> "None", v |-> <<>>]
NoneInt == [t |-> "None", v |-> 0]
PyStr(s) == [t |-> "str", v |-> s]
PyInt(n) == [t |-> "int", v |-> n]
PyTrue == [t |-> "bool", v |-> 1]
\* bool(x) of an Optional[str] / Optional[int]
TruthyStr(x) == x.t = "str" /\ x.v # <<>>
\* the mutant: an amount is present when it is not None
AmountNotNone(x) == x.t # "None"
TruthyInt(x) == x.t # "None" /\ x.v # 0
\* what a variable holds before the operation has been called
NotCalled == [t |-> "NotCalled", v |-> <<>>]
\* the value of the variables of the operations a specification leaves out
Idle == [t |-> "Idle", v |-> <<>>]

----------------------------------------------------------------------------
(* Strings *)

RECURSIVE Concat(_)
Concat(ss) == IF ss = <<>> THEN <<>> ELSE Head(ss) \o Concat(Tail(ss))

IsPrefix(p, s) == Len(p) <= Len(s) /\ SubSeq(s, 1, Len(p)) = p
EndsWith(s, e) == Len(e) <= Len(s) /\ SubSeq(s, Len(s) - Len(e) + 1, Len(s)) = e

RECURSIVE StrSeqs(_, _)
\* all strings over alphabet of at most n characters
StrSeqs(alphabet, n) ==
    IF n = 0 THEN {<<>>}
    ELSE LET shorter == StrSeqs(alphabet, n - 1)
         IN shorter \cup {Append(s, c) : s \in shorter, c \in alphabet}

\* str.isspace / the regex class \s on the characters of the model: the ASCII
\* white space, NEL, NBSP and the ideographic space U+3000
IsSpace(c) == c \in {9, 10, 11, 12, 13, 28, 29, 30, 31, 32, 133, 160, 12288}

RECURSIVE IntStr(_)
\* str(n) for n >= 0
IntStr(n) == IF n < 10 THEN <<48 + n>> ELSE IntStr(n \div 10) \o <<48 + (n % 10)>>

RECURSIVE CommaStr(_)
\* f"{n:,}" for n >= 0
CommaStr(n) ==
    IF n < 1000 THEN IntStr(n)
    ELSE LET r == n % 1000
         IN CommaStr(n \div 1000) \o <<44>> \o <<48 + (r \div 100), 48 + ((r \div 10) % 10), 48 + (r % 10)>>

----------------------------------------------------------------------------
(* UTF-8 *)

DecodeError == <<-1>>

\* str.encode('utf-8') of one code point
EncodeChar(c) ==
    IF c < 128 THEN <<c>>
    ELSE IF c < 2048 THEN <<192 + (c \div 64), 128 + (c % 64)>>
    ELSE IF c < 65536
         THEN <<224 + (c \div 4096), 128 + ((c \div 64) % 64), 128 + (c % 64)>>
    ELSE <<240 + (c \div 262144), 128 + ((c \div 4096) % 64),
           128 + ((c \div 64) % 64), 128 + (c % 64)>>

RECURSIVE EncodeRange(_, _, _)
\* the bytes of s[lo..hi], by halves to keep the evaluation shallow
EncodeRange(s, lo, hi) ==
    IF lo > hi THEN <<>>
    ELSE IF lo = hi THEN EncodeChar(s[lo])
    ELSE LET mid == (lo + hi) \div 2
         IN EncodeRange(s, lo, mid) \o EncodeRange(s, mid + 1, hi)

Encode(s) == EncodeRange(s, 1, Len(s))

Utf8Len(s) == Len(Encode(s))

\* the number of bytes the lead byte b announces, 0 when b is no lead byte
LeadWidth(b) ==
    IF b < 128 THEN 1
    ELSE IF b >= 192 /\ b < 224 THEN 2
    ELSE IF b >= 224 /\ b < 240 THEN 3
    ELSE IF b >= 240 /\ b < 248 THEN 4
    ELSE 0

IsCont(b) == b >= 128 /\ b < 192

\* the code point of the character whose lead byte is bs[i], w bytes wide
CodePointAt(bs, i, w) ==
    IF w = 1 THEN bs[i]
    ELSE IF w = 2 THEN (bs[i] - 192) * 64 + (bs[i + 1] - 128)
    ELSE IF w = 3 THEN (bs[i] - 224) * 4096 + (bs[i + 1] - 128) * 64 + (bs[i + 2] - 128)
    ELSE (bs[i] - 240) * 262144 + (bs[i + 1] - 128) * 4096
         + (bs[i + 2] - 128) * 64 + (bs[i + 3] - 128)

\* every byte that is no continuation byte is a lead byte followed by exactly the
\* continuation bytes it announces, and the first byte is no continuation byte
WellFormed(bs) ==
    \A i \in 1..Len(bs) :
        IF IsCont(bs[i]) THEN i > 1
        ELSE LET w == LeadWidth(bs[i])
             IN /\ w > 0
                /\ i + w - 1 <= Len(bs)
                /\ \A k \in (i + 1)..(i + w - 1) : IsCont(bs[k])
                /\ (i + w <= Len(bs) => ~IsCont(bs[i + w]))

RECURSIVE DecodeRange(_, _, _)
\* the characters whose lead byte is in bs[lo..hi], by halves
DecodeRange(bs, lo, hi) ==
    IF lo > hi THEN <<>>
    ELSE IF lo = hi
         THEN (IF IsCont(bs[lo]) THEN <<>> ELSE <<CodePointAt(bs, lo, LeadWidth(bs[lo]))>>)
    ELSE LET mid == (lo + hi) \div 2
         IN DecodeRange(bs, lo, mid) \o DecodeRange(bs, mid + 1, hi)

\* bytes.decode('utf-8'): the string, or DecodeError (UnicodeDecodeError) when a
\* character is cut or a byte is out of place
Decode(bs) == IF WellFormed(bs) THEN DecodeRange(bs, 1, Len(bs)) ELSE DecodeError

----------------------------------------------------------------------------
(* property_cleaner.sanitize_filename *)

\* _FORBIDDEN: \ / : * ? " < > |
_FORBIDDEN == {92, 47, 58, 42, 63, 34, 60, 62, 124}
MiddleDot == 12539    \* "・"

RECURSIVE CollapseRange(_, _, _)
\* _SPACE.sub(" ", s) on s[lo..hi]: every maximal run of white space becomes one
\* space (its first character is kept as a space, the others are dropped)
CollapseRange(s, lo, hi) ==
    IF lo > hi THEN <<>>
    ELSE IF lo = hi
         THEN (IF ~IsSpace(s[lo]) THEN <<s[lo]>>
               ELSE IF lo > 1 /\ IsSpace(s[lo - 1]) THEN <<>> ELSE <<32>>)
    ELSE LET mid == (lo + hi) \div 2
         IN CollapseRange(s, lo, mid) \o CollapseRange(s, mid + 1, hi)

CollapseSpace(s) == CollapseRange(s, 1, Len(s))

SetMin(S) == CHOOSE i \in S : \A j \in S : i <= j
SetMax(S) == CHOOSE i \in S : \A j \in S : i >= j

\* str.strip()
Strip(s) ==
    LET solid == {i \in 1..Len(s) : ~IsSpace(s[i])}
    IN IF solid = {} THEN <<>> ELSE SubSeq(s, SetMin(solid), SetMax(solid))

sanitize_filename(s) ==
    IF s = <<>> THEN <<>>
    ELSE LET dotted == [i \in 1..Len(s) |-> IF s[i] \in _FORBIDDEN THEN MiddleDot ELSE s[i]]
             halfw == [i \in 1..Len(s) |-> IF dotted[i] = 12288 THEN 32 ELSE dotted[i]]
         IN Strip(CollapseSpace(halfw))

----------------------------------------------------------------------------
(* file_namer._truncate_filename *)

\* the default of max_bytes
MaxFilenameBytes == 200

RECURSIVE BackOff(_, _, _)
\* for i in range(hi, lo, -1): the first truncated[:i] that decodes, or
\* DecodeError when the loop ends without one
BackOff(truncated, i, lo) ==
    IF i <= lo THEN DecodeError
    ELSE LET d == Decode(SubSeq(truncated, 1, i))
         IN IF d # DecodeError THEN d ELSE BackOff(truncated, i - 1, lo)

Max(a, b) == IF a >= b THEN a ELSE b

\* the mutant: the budget taken in characters instead of bytes
TruncateByChars(fname, max_bytes) ==
    SubSeq(fname, 1, IF max_bytes < Len(fname) THEN max_bytes ELSE Len(fname))

_truncate_filename(fname, max_bytes) ==
    IF fname = <<>> THEN fname
    ELSE LET encoded == Encode(fname)
         IN IF Len(encoded) <= max_bytes THEN fname
            ELSE LET truncated == SubSeq(encoded, 1, max_bytes)
                     whole == Decode(truncated)
                     back == BackOff(truncated, Len(truncated) - 1, Max(0, Len(truncated) - 4))
                 IN IF whole # DecodeError THEN whole
                    ELSE IF back # DecodeError THEN back
                    ELSE SubSeq(fname, 1, max_bytes \div 4)

----------------------------------------------------------------------------
(* The specification of _truncate_filename: the arguments are drawn in Init *)

MaxTruncLen == 3
MaxTruncBytes == 8
\* one character of each UTF-8 width: "a", "é", "あ", U+20000
TruncAlphabet == {97, 233, 12354, 131072}

NamerIdle == info = Idle /\ original_path = Idle /\ filename = Idle
TruncIdle == t_filename = Idle /\ t_max_bytes = Idle /\ t_result = Idle
FsIdle ==
    /\ dirs = Idle /\ platform = Idle /\ now = Idle /\ strict_mode = Idle
    /\ operation_log = Idle /\ result = Idle /\ raised = Idle /\ calls = Idle
CollideIdle ==
    desired = Idle /\ desired_dir = Idle /\ namer_choice = Idle /\ manager_choice = Idle
ParseIdle ==
    /\ pdf_text = Idle /\ p_unspecified = Idle /\ p_amount_jpy = Idle /\ p_amounts = Idle
    /\ p_kind = Idle /\ p_extract = Idle /\ p_info = Idle
CleanIdle == c_result = Idle
NormalizeIdle == n_s = Idle /\ n_result = Idle /\ n_twice = Idle
FormatIdle == f_amount = Idle /\ f_sell = Idle /\ f_rent = Idle
PureIdle == CleanIdle /\ NormalizeIdle /\ FormatIdle
RaceIdle == pc = Idle /\ chosen = Idle /\ outcome = Idle
TsvIdle == error_tsv = Idle /\ error_calls = Idle /\ error_written = Idle
RollbackIdle ==
    /\ entries = Idle /\ dry_run = Idle /\ entry_index = Idle
    /\ action = Idle /\ rollback_error = Idle /\ rollback_result = Idle
ApplyIdle ==
    /\ pdfs = Idle /\ outdir = Idle /\ apply_pc = Idle /\ apply_index = Idle
    /\ process_result = Idle /\ analysed = Idle /\ results = Idle
    /\ rollback_entries = Idle /\ errors = Idle /\ stats = Idle /\ exit_code = Idle
    /\ rollback_tsv = Idle /\ apply_tsv = Idle
RunIdle == RaceIdle /\ TsvIdle /\ RollbackIdle /\ ApplyIdle

InitTrunc ==
    /\ t_filename \in StrSeqs(TruncAlphabet, MaxTruncLen)
    /\ t_max_bytes \in 0..MaxTruncBytes
    /\ t_result = NotCalled
    /\ NamerIdle /\ FsIdle /\ CollideIdle /\ ParseIdle /\ PureIdle
    /\ RunIdle

CallTruncate ==
    /\ t_result = NotCalled
    /\ t_result' = PyStr(_truncate_filename(t_filename, t_max_bytes))
    /\ UNCHANGED <<t_filename, t_max_bytes, namerVars, fsVars, collideVars, parseVars, pureVars>>
    /\ UNCHANGED runVars

NextTrunc == CallTruncate

SpecTrunc == InitTrunc /\ [][NextTrunc]_vars

\* C3: a string longer than the byte budget is truncated to a string of at most
\* max_bytes bytes of UTF-8 that is a prefix of the input (so no character is cut
\* in the middle); a string within the budget is returned unchanged.
C3_TruncateWithinBudget ==
    t_result # NotCalled =>
        /\ t_result.v # DecodeError
        /\ IF Utf8Len(t_filename) > t_max_bytes
           THEN /\ Utf8Len(t_result.v) <= t_max_bytes
                /\ Decode(Encode(t_result.v)) = t_result.v
                /\ IsPrefix(t_result.v, t_filename)
           ELSE t_result.v = t_filename

\* a cut in the middle of a character: the slice of the bytes does not decode and
\* the loop backs off to the character boundary
C3_Witness ==
    /\ t_result # NotCalled
    /\ Utf8Len(t_filename) > t_max_bytes
    /\ Decode(SubSeq(Encode(t_filename), 1, t_max_bytes)) = DecodeError
    /\ t_result.v # <<>>
    /\ IsPrefix(t_result.v, t_filename)

----------------------------------------------------------------------------
(* price_normalizer.format_price_sell / format_price_rent *)

OkuEn == <<20740, 20870>>    \* "億円"
ManEn == <<19975, 20870>>    \* "万円"
En == <<20870>>              \* "円"
ZeroEn == <<48, 20870>>      \* "0円"

\* round(yen / 100_000_000, 1) in tenths of 億.  The code rounds a binary float;
\* away from the ties (yen % 10^7 = 5 * 10^6), where the result depends on the
\* float nearest to the quotient, this is the nearest tenth.  The amounts of the
\* model are no ties.
RoundTenthsOku(yen) == (yen + 5000000) \div 10000000

format_price_sell(yen) ==
    IF yen < 0 THEN ZeroEn
    ELSE IF yen >= 100000000
         THEN LET tenths == RoundTenthsOku(yen)
              IN IF tenths % 10 = 0
                 THEN IntStr(tenths \div 10) \o OkuEn
                 ELSE IntStr(tenths \div 10) \o <<46, 48 + (tenths % 10)>> \o OkuEn
         ELSE CommaStr(yen \div 10000) \o ManEn

format_price_rent(yen) ==
    IF yen < 0 THEN ZeroEn ELSE CommaStr(yen) \o En

----------------------------------------------------------------------------
(* file_namer.generate_filename *)

TagSell == <<12304, 22770, 36023, 12305>>             \* "【売買】"
TagRent == <<12304, 36035, 36024, 12305>>             \* "【賃貸】"
TagOther == <<12304, 12381, 12398, 20182, 12305>>     \* "【その他】"
LblRent == <<95, 23478, 36035>>                       \* "_家賃"
LblPriceMissing == <<95, 20385, 26684, 26410, 21462, 24471>>              \* "_価格未取得"
LblRentMissing == <<95, 23478, 36035, 26410, 21462, 24471>>               \* "_家賃未取得"
LblKindMissing == <<95, 21462, 24341, 31278, 21029, 26410, 21462, 24471>> \* "_取引種別未取得"
LblUndecided == <<95, 26410, 30906, 23450>>           \* "_未確定"
NameMissing == <<21517, 31216, 26410, 21462, 24471>>  \* "名称未取得"

_format_amount_for_filename(amount, kind) ==
    IF kind = "sell" THEN format_price_sell(amount)
    ELSE IF kind = "rent" THEN format_price_rent(amount)
    ELSE CommaStr(amount) \o En

\* str.rfind of the character c: its last index in s, 0 when there is none
RFind(s, c) ==
    LET at == {i \in 1..Len(s) : s[i] = c}
    IN IF at = {} THEN 0 ELSE SetMax(at)

\* pathlib's PurePath.suffix and PurePath.stem of a file name: the suffix starts
\* at the last dot, unless that dot is the first or the last character
PathSuffix(name) ==
    LET i == RFind(name, 46)
    IN IF 1 < i /\ i < Len(name) THEN SubSeq(name, i, Len(name)) ELSE <<>>

PathStem(name) ==
    LET i == RFind(name, 46)
    IN IF 1 < i /\ i < Len(name) THEN SubSeq(name, 1, i - 1) ELSE name

\* the local function safe_name
safe_name(name) ==
    IF ~TruthyStr(name) THEN NameMissing
    ELSE LET sanitized == sanitize_filename(Strip(name.v))
         IN IF sanitized # <<>> THEN sanitized ELSE NameMissing

\* the mutant: the branch of a missing amount tested before the branch of a
\* present one, with the test of the amount dropped
StemMissingFirst(i, original_stem) ==
    IF i.kind = "sell" /\ TruthyStr(i.name)
    THEN TagSell \o safe_name(i.name) \o LblPriceMissing
    ELSE IF i.kind = "rent" /\ TruthyStr(i.name)
    THEN TagRent \o safe_name(i.name) \o LblRentMissing
    ELSE IF TruthyStr(i.name)
    THEN TagOther \o safe_name(i.name) \o LblKindMissing
    ELSE TagOther \o sanitize_filename(original_stem) \o LblUndecided

\* filename_stem as the if / elif / else of lines 88-111 leaves it
filename_stem(i, original_stem) ==
    IF i.kind = "sell" /\ TruthyStr(i.name) /\ TruthyInt(i.amount)
    THEN TagSell \o safe_name(i.name) \o <<95>>
         \o _format_amount_for_filename(i.amount.v, "sell")
    ELSE IF i.kind = "rent" /\ TruthyStr(i.name) /\ TruthyInt(i.amount)
    THEN TagRent \o safe_name(i.name) \o LblRent
         \o _format_amount_for_filename(i.amount.v, "rent")
    ELSE LET base_name == IF TruthyStr(i.name) THEN safe_name(i.name)
                          ELSE sanitize_filename(original_stem)
         IN IF i.kind = "sell" /\ TruthyStr(i.name) /\ ~TruthyInt(i.amount)
            THEN TagSell \o safe_name(i.name) \o LblPriceMissing
            ELSE IF i.kind = "rent" /\ TruthyStr(i.name) /\ ~TruthyInt(i.amount)
            THEN TagRent \o safe_name(i.name) \o LblRentMissing
            ELSE IF TruthyStr(i.name) /\ ~TruthyInt(i.amount)
            THEN TagOther \o safe_name(i.name) \o LblKindMissing
            ELSE TagOther \o base_name \o LblUndecided

generate_filename(i, path) ==
    LET original_stem == PathStem(path)
        extension == PathSuffix(path)
        stem == sanitize_filename(filename_stem(i, original_stem))
        full_filename == stem \o extension
    IN _truncate_filename(full_filename, MaxFilenameBytes)

----------------------------------------------------------------------------
(* The specification of generate_filename: info and the path are drawn in Init *)

\* the length of the name that makes stem + extension exceed the 200 bytes
LongNameLen == 70

Kinds == {"sell", "rent", "unknown"}

NameGrand == <<12464, 12521, 12531, 12489>>                   \* "グランド"
NameDirty == <<65, 47, 66, 12288, 32, 67>>                    \* "A/B" U+3000 " C"
NameBlank == <<32, 32, 32>>                                   \* "   "
NameLong == [k \in 1..LongNameLen |-> 12354]                  \* "あ" * LongNameLen

NamerNames ==
    {NoneStr, PyStr(NameGrand), PyStr(NameDirty), PyStr(NameBlank), PyStr(NameLong)}

NamerAmounts ==
    {NoneInt, PyInt(0), PyInt(210000), PyInt(85000000), PyInt(100000000), PyInt(123000000)}

PathOriginal == <<111, 114, 105, 103, 105, 110, 97, 108, 46, 112, 100, 102>>  \* "original.pdf"
PathColon == <<97, 58, 98, 46, 80, 68, 70>>                   \* "a:b.PDF"
PathNoExt == <<110, 111, 101, 120, 116>>                      \* "noext"
PathTarGz == <<120, 46, 116, 97, 114, 46, 103, 122>>          \* "x.tar.gz"

NamerPaths == {PathOriginal, PathColon, PathNoExt, PathTarGz}

InitNamer ==
    /\ info \in [kind : Kinds, name : NamerNames, amount : NamerAmounts]
    /\ original_path \in NamerPaths
    /\ filename = NotCalled
    /\ TruncIdle /\ FsIdle /\ CollideIdle /\ ParseIdle /\ PureIdle
    /\ RunIdle

CallGenerateFilename ==
    /\ filename = NotCalled
    /\ filename' = PyStr(generate_filename(info, original_path))
    /\ UNCHANGED <<info, original_path, truncVars, fsVars, collideVars, parseVars, pureVars>>
    /\ UNCHANGED runVars

NextNamer == CallGenerateFilename

SpecNamer == InitNamer /\ [][NextNamer]_vars

\* no row of the table applies
NoRow == <<-1>>

\* the table of the claim as written: a name or an amount is present when it is
\* not None, and there is no row for kind unknown with a name and an amount
C1_OriginalStem ==
    LET n == info.name.t # "None"
        a == info.amount.t # "None"
        nm == safe_name(info.name)
    IN CASE info.kind = "sell" /\ n /\ a -> TagSell \o nm \o <<95>> \o format_price_sell(info.amount.v)
         [] info.kind = "rent" /\ n /\ a -> TagRent \o nm \o LblRent \o format_price_rent(info.amount.v)
         [] info.kind = "sell" /\ n /\ ~a -> TagSell \o nm \o LblPriceMissing
         [] info.kind = "rent" /\ n /\ ~a -> TagRent \o nm \o LblRentMissing
         [] info.kind = "unknown" /\ n /\ ~a -> TagOther \o nm \o LblKindMissing
         [] ~n -> TagOther \o sanitize_filename(PathStem(original_path)) \o LblUndecided
         [] OTHER -> NoRow

\* C1 as written: the stem is the one the table of the claim gives (sanitized, the
\* original extension appended, within the byte budget), and a row applies to
\* every combination of kind, name and amount.
C1_Original ==
    filename # NotCalled =>
        /\ C1_OriginalStem # NoRow
        /\ filename.v = _truncate_filename(
               sanitize_filename(C1_OriginalStem) \o PathSuffix(original_path), MaxFilenameBytes)

\* the table as amended: present means truthy (a non-empty name, a non-zero
\* amount), and kind unknown with a name and an amount has a row of its own
C1_TableStem ==
    LET n == TruthyStr(info.name)
        a == TruthyInt(info.amount)
        nm == safe_name(info.name)
    IN CASE info.kind = "sell" /\ n /\ a -> TagSell \o nm \o <<95>> \o format_price_sell(info.amount.v)
         [] info.kind = "rent" /\ n /\ a -> TagRent \o nm \o LblRent \o format_price_rent(info.amount.v)
         [] info.kind = "sell" /\ n /\ ~a -> TagSell \o nm \o LblPriceMissing
         [] info.kind = "rent" /\ n /\ ~a -> TagRent \o nm \o LblRentMissing
         [] info.kind = "unknown" /\ n /\ ~a -> TagOther \o nm \o LblKindMissing
         [] info.kind = "unknown" /\ n /\ a -> TagOther \o nm \o LblUndecided
         [] ~n -> TagOther \o sanitize_filename(PathStem(original_path)) \o LblUndecided
         [] OTHER -> NoRow

\* C1 (amended): generate_filename chooses the stem by the decision table over
\* (kind, name present, amount present), where present means truthy and kind
\* unknown with a name and an amount gives the stem of the undecided template with
\* the name; a row applies to every combination; the stem is sanitized, the
\* original extension is appended and the whole is cut to the byte budget.
C1_DecisionTable ==
    filename # NotCalled =>
        /\ C1_TableStem # NoRow
        /\ filename.v = _truncate_filename(
               sanitize_filename(C1_TableStem) \o PathSuffix(original_path), MaxFilenameBytes)

\* kind unknown with a name and an amount: the row the claim as written leaves out
C1_Witness ==
    /\ filename # NotCalled
    /\ info.kind = "unknown"
    /\ info.name = PyStr(NameGrand)
    /\ info.amount = PyInt(210000)
    /\ original_path = PathOriginal
    /\ filename.v = TagOther \o NameGrand \o LblUndecided \o PathSuffix(PathOriginal)

\* C2: the filename generate_filename returns ends with the extension of the
\* original file, also when stem + extension exceeds the 200 bytes.
C2_EndsWithExtension ==
    filename # NotCalled => EndsWith(filename.v, PathSuffix(original_path))

----------------------------------------------------------------------------
(* The file system the file manager works on *)

(* A path is a record [dir, name].  dirs maps every directory to a record      *)
(* [exists, files, filler]: files maps the names of its files to their         *)
(* contents, and filler = k stands for the k further files t-1.pdf .. t-k.pdf  *)
(* (content 0), which no operation of the model removes.                       *)

DirNames == {"src", "out"}

\* the calls one run makes, and the seconds that pass during it
MaxCalls == 2
MaxTicks == 1
\* int(time.time()) when the run starts
ClockStart == 1700000000

NameA == <<97, 46, 112, 100, 102>>                        \* "a.pdf"
NameB == <<98, 46, 112, 100, 102>>                        \* "b.pdf"
NameGhost == <<103, 104, 111, 115, 116, 46, 112, 100, 102>>   \* "ghost.pdf", never created
NameT == <<116, 46, 112, 100, 102>>                       \* "t.pdf"

\* final_path=None and error_message=None
NoPath == [dir |-> "None", name |-> <<>>]
NoMessage == "None"

IsDigitAscii(c) == c >= 48 /\ c <= 57

RECURSIVE ParseNat(_)
\* int(ds) of a string of ASCII digits
ParseNat(ds) ==
    IF ds = <<>> THEN 0 ELSE ParseNat(SubSeq(ds, 1, Len(ds) - 1)) * 10 + (ds[Len(ds)] - 48)

\* name is one of t-1.pdf .. t-k.pdf
IsFiller(name, k) ==
    /\ k > 0
    /\ Len(name) > 6
    /\ IsPrefix(<<116, 45>>, name)
    /\ EndsWith(name, <<46, 112, 100, 102>>)
    /\ LET ds == SubSeq(name, 3, Len(name) - 4)
       IN /\ \A j \in 1..Len(ds) : IsDigitAscii(ds[j])
          /\ ds[1] # 48
          /\ Len(ds) <= 9
          /\ ParseNat(ds) <= k

\* Path.exists() of a directory and of a file
DirExists(fs, d) == fs[d].exists
FileExists(fs, d, name) ==
    fs[d].exists /\ (name \in DOMAIN fs[d].files \/ IsFiller(name, fs[d].filler))

\* the content of an existing file
Content(fs, d, name) == IF name \in DOMAIN fs[d].files THEN fs[d].files[name] ELSE 0

\* f"{stem}-{i}{suffix}"
NumberedName(fname, i) == PathStem(fname) \o <<45>> \o IntStr(i) \o PathSuffix(fname)

----------------------------------------------------------------------------
(* file_namer.generate_collision_free_filename *)

\* range(1, 1000)
MaxTries == 999

RECURSIVE NamerLoop(_, _, _, _, _)
\* for i in range(lo, hi + 1): the first i whose name is free, 0 when the loop
\* ends without one (by halves; the first half is searched first)
NamerLoop(target_filename, target_dir, fs, lo, hi) ==
    IF lo > hi THEN 0
    ELSE IF lo = hi
         THEN (IF ~FileExists(fs, target_dir, NumberedName(target_filename, lo)) THEN lo ELSE 0)
    ELSE LET mid == (lo + hi) \div 2
             first == NamerLoop(target_filename, target_dir, fs, lo, mid)
         IN IF first # 0 THEN first
            ELSE NamerLoop(target_filename, target_dir, fs, mid + 1, hi)

generate_collision_free_filename(target_filename, target_dir, fs, time) ==
    IF ~DirExists(fs, target_dir) THEN target_filename
    ELSE IF ~FileExists(fs, target_dir, target_filename) THEN target_filename
    ELSE LET i == NamerLoop(target_filename, target_dir, fs, 1, MaxTries)
         IN IF i # 0 THEN NumberedName(target_filename, i)
            ELSE NumberedName(target_filename, time)

----------------------------------------------------------------------------
(* file_manager.FileManager *)

RECURSIVE ManagerLoop(_, _, _, _, _)
\* for i in range(lo, hi + 1): the first i whose candidate is free, 0 when the
\* loop ends without one
ManagerLoop(fname, target_dir, fs, lo, hi) ==
    IF lo > hi THEN 0
    ELSE IF lo = hi
         THEN (IF ~FileExists(fs, target_dir, NumberedName(fname, lo)) THEN lo ELSE 0)
    ELSE LET mid == (lo + hi) \div 2
             first == ManagerLoop(fname, target_dir, fs, lo, mid)
         IN IF first # 0 THEN first
            ELSE ManagerLoop(fname, target_dir, fs, mid + 1, hi)

\* the mutant: the numbering starts at 2
CollisionFreeFromTwo(fname, target_dir, fs, time) ==
    IF ~DirExists(fs, target_dir) THEN fname
    ELSE IF ~FileExists(fs, target_dir, fname) THEN fname
    ELSE LET i == ManagerLoop(fname, target_dir, fs, 2, MaxTries)
         IN IF i # 0 THEN NumberedName(fname, i) ELSE NumberedName(fname, time)

\* the mutant: the desired name is taken as it is
CollisionFreeUnchecked(fname, target_dir, fs, time) == fname

_get_collision_free_name(fname, target_dir, fs, time) ==
    IF ~DirExists(fs, target_dir) THEN fname
    ELSE IF ~FileExists(fs, target_dir, fname) THEN fname
    ELSE LET i == ManagerLoop(fname, target_dir, fs, 1, MaxTries)
         IN IF i # 0 THEN NumberedName(fname, i) ELSE NumberedName(fname, time)

FileOperationResult(orig, target_filename, final_path, success, error_message, operation_type) ==
    [original_path |-> orig, target_filename |-> target_filename, final_path |-> final_path,
     success |-> success, error_message |-> error_message, operation_type |-> operation_type]

\* the mutant: a target that exists is left as it is
WriteFileKeepsTarget(fs, orig, target, remove) ==
    IF FileExists(fs, target.dir, target.name) THEN fs
    ELSE [fs EXCEPT ![target.dir].files =
             [n \in DOMAIN fs[target.dir].files \cup {target.name} |->
                 IF n = target.name THEN Content(fs, orig.dir, orig.name)
                 ELSE fs[target.dir].files[n]]]

\* the mutant: the original stays where it was
WriteFileKeepsOriginal(fs, orig, target, remove) ==
    [fs EXCEPT ![target.dir].files =
        [n \in DOMAIN fs[target.dir].files \cup {target.name} |->
            IF n = target.name THEN Content(fs, orig.dir, orig.name)
            ELSE fs[target.dir].files[n]]]

\* the file system after os.rename / shutil.copy2 has written target with the
\* content of orig; remove tells whether orig is gone afterwards
WriteFile(fs, orig, target, remove) ==
    LET c == Content(fs, orig.dir, orig.name)
        gone == IF remove /\ orig # target
                THEN [fs EXCEPT ![orig.dir].files =
                         [n \in DOMAIN fs[orig.dir].files \ {orig.name} |-> fs[orig.dir].files[n]]]
                ELSE fs
    IN [gone EXCEPT ![target.dir].files =
           [n \in DOMAIN gone[target.dir].files \cup {target.name} |->
               IF n = target.name THEN c ELSE gone[target.dir].files[n]]]

\* output_dir.mkdir(parents=True, exist_ok=True)
MkDir(fs, d) == [fs EXCEPT ![d].exists = TRUE]

\* the except branch of rename_file and copy_file: the failure is logged, and
\* raised again in strict mode
Failed(orig, new_filename, error, operation_type) ==
    LET r == FileOperationResult(orig, new_filename, NoPath, FALSE, error, operation_type)
    IN /\ result' = r
       /\ operation_log' = Append(operation_log, r)
       /\ raised' = strict_mode

\* rename_file(original_path, new_filename); fault: os.rename raises OSError
rename_file(orig, new_filename, fault) ==
    /\ calls < MaxCalls
    /\ calls' = calls + 1
    /\ IF ~FileExists(dirs, orig.dir, orig.name)
       THEN /\ result' = FileOperationResult(orig, new_filename, NoPath, FALSE,
                             "Original file does not exist", "rename")
            /\ raised' = FALSE
            /\ UNCHANGED <<dirs, operation_log>>
       ELSE IF fault
       THEN Failed(orig, new_filename, "OSError", "rename") /\ UNCHANGED dirs
       ELSE \E target_path \in {[dir |-> orig.dir,
                                  name |-> _get_collision_free_name(new_filename, orig.dir, dirs, now)]} :
               IF /\ platform = "nt"
                  /\ target_path # orig
                  /\ FileExists(dirs, target_path.dir, target_path.name)
               THEN Failed(orig, new_filename, "FileExistsError", "rename") /\ UNCHANGED dirs
               ELSE LET r == FileOperationResult(orig, new_filename, target_path, TRUE, NoMessage, "rename")
                    IN /\ dirs' = WriteFile(dirs, orig, target_path, TRUE)
                       /\ result' = r
                       /\ operation_log' = Append(operation_log, r)
                       /\ raised' = FALSE
    /\ UNCHANGED <<platform, now, strict_mode>>

\* copy_file(original_path, new_filename, output_dir); fault: shutil.copy2 raises
\* OSError
copy_file(orig, new_filename, output_dir, fault) ==
    /\ calls < MaxCalls
    /\ calls' = calls + 1
    /\ IF ~FileExists(dirs, orig.dir, orig.name)
       THEN /\ result' = FileOperationResult(orig, new_filename, NoPath, FALSE,
                             "Original file does not exist", "copy")
            /\ raised' = FALSE
            /\ UNCHANGED <<dirs, operation_log>>
       ELSE \E made \in {MkDir(dirs, output_dir)} :
            IF fault
            THEN Failed(orig, new_filename, "OSError", "copy") /\ dirs' = made
            ELSE
            \E target_path \in {[dir |-> output_dir,
                                  name |-> _get_collision_free_name(new_filename, output_dir, made, now)]} :
               IF target_path = orig
               THEN Failed(orig, new_filename, "SameFileError", "copy") /\ dirs' = made
               ELSE LET r == FileOperationResult(orig, new_filename, target_path, TRUE, NoMessage, "copy")
                    IN /\ dirs' = WriteFile(made, orig, target_path, FALSE)
                       /\ result' = r
                       /\ operation_log' = Append(operation_log, r)
                       /\ raised' = FALSE
    /\ UNCHANGED <<platform, now, strict_mode>>

----------------------------------------------------------------------------
(* The specification of the file manager: one caller, one call after another *)

Originals == {[dir |-> "src", name |-> n] : n \in {NameA, NameB, NameGhost}}
NewNames == {NameT, NameA}

\* the second passes while the caller is between two calls
Tick ==
    /\ calls > 0 /\ calls < MaxCalls
    /\ now < ClockStart + MaxTicks
    /\ now' = now + 1
    /\ UNCHANGED <<dirs, platform, strict_mode, operation_log, result, raised, calls>>
    /\ UNCHANGED <<namerVars, truncVars, collideVars, parseVars, pureVars>>
    /\ UNCHANGED runVars

\* the directories at the start, as <<src has t.pdf, its numbered variants,
\* out exists, out has t.pdf, its numbered variants>>; src always holds a.pdf
\* and b.pdf
Scenarios ==
    {<<FALSE, 0, FALSE, FALSE, 0>>,
     <<FALSE, 0, TRUE, FALSE, 0>>,
     <<FALSE, 0, TRUE, TRUE, 0>>,
     <<TRUE, 0, TRUE, TRUE, 0>>,
     <<TRUE, MaxTries, FALSE, FALSE, 0>>,
     <<FALSE, 0, TRUE, TRUE, MaxTries - 1>>,
     <<FALSE, 0, TRUE, TRUE, MaxTries>>}

InitFs ==
    /\ \E s \in Scenarios :
          dirs = [d \in DirNames |->
                IF d = "src"
                THEN [exists |-> TRUE,
                      files |-> [n \in {NameA, NameB} \cup (IF s[1] THEN {NameT} ELSE {}) |->
                                    IF n = NameA THEN 1 ELSE IF n = NameB THEN 2 ELSE 0],
                      filler |-> s[2]]
                ELSE [exists |-> s[3],
                      files |-> [n \in (IF s[4] THEN {NameT} ELSE {}) |-> 0],
                      filler |-> s[5]]]
    /\ platform \in {"posix", "nt"}
    /\ now = ClockStart
    /\ strict_mode \in BOOLEAN
    /\ operation_log = <<>>
    /\ result = NotCalled
    /\ raised = FALSE
    /\ calls = 0
    /\ NamerIdle /\ TruncIdle /\ CollideIdle /\ ParseIdle /\ PureIdle
    /\ RunIdle

CallRename ==
    /\ \E orig \in Originals, new_filename \in NewNames, fault \in BOOLEAN :
          rename_file(orig, new_filename, fault)
    /\ UNCHANGED <<namerVars, truncVars, collideVars, parseVars, pureVars>>
    /\ UNCHANGED runVars

CallCopy ==
    /\ \E orig \in Originals, new_filename \in NewNames, fault \in BOOLEAN :
          copy_file(orig, new_filename, "out", fault)
    /\ UNCHANGED <<namerVars, truncVars, collideVars, parseVars, pureVars>>
    /\ UNCHANGED runVars

NextFs == CallRename \/ CallCopy \/ Tick

SpecFs == InitFs /\ [][NextFs]_vars

----------------------------------------------------------------------------
(* The specification of collision resolution: both functions are asked for   *)
(* a name in the same directory at the same second                           *)

NameTNoExt == <<116>>                                      \* "t"
NameT1 == <<116, 45, 49, 46, 112, 100, 102>>               \* "t-1.pdf"
NameT2 == <<116, 45, 50, 46, 112, 100, 102>>               \* "t-2.pdf"
NameT3 == <<116, 45, 51, 46, 112, 100, 102>>               \* "t-3.pdf"
NameTNoExt1 == <<116, 45, 49>>                             \* "t-1"

DesiredNames == {NameT, NameTNoExt, NameA}
CollideFiles == {NameT, NameT1, NameT2, NameT3, NameTNoExt, NameTNoExt1}

InitCollide ==
    /\ \E exists \in BOOLEAN, present \in SUBSET CollideFiles,
          fill \in {0, MaxTries - 1, MaxTries} :
          /\ (~exists => present = {} /\ fill = 0)
          /\ dirs = [d \in DirNames |->
                [exists |-> IF d = "out" THEN exists ELSE TRUE,
                 files |-> [n \in (IF d = "out" THEN present ELSE {}) |-> 0],
                 filler |-> IF d = "out" THEN fill ELSE 0]]
    /\ now \in ClockStart..(ClockStart + MaxTicks)
    /\ desired \in DesiredNames
    /\ desired_dir = "out"
    /\ namer_choice = NotCalled
    /\ manager_choice = NotCalled
    /\ platform = Idle /\ strict_mode = Idle /\ operation_log = Idle
    /\ result = Idle /\ raised = Idle /\ calls = Idle
    /\ NamerIdle /\ TruncIdle /\ ParseIdle /\ PureIdle
    /\ RunIdle

CallCollisionFree ==
    /\ namer_choice = NotCalled
    /\ namer_choice' = generate_collision_free_filename(desired, desired_dir, dirs, now)
    /\ manager_choice' = _get_collision_free_name(desired, desired_dir, dirs, now)
    /\ UNCHANGED <<desired, desired_dir, fsVars, namerVars, truncVars, parseVars, pureVars>>
    /\ UNCHANGED runVars

NextCollide == CallCollisionFree

SpecCollide == InitCollide /\ [][NextCollide]_vars

\* the numbers in 1..999 whose numbered name is free in the target directory
FreeNumbers == {i \in 1..MaxTries : ~FileExists(dirs, desired_dir, NumberedName(desired, i))}

\* C4: the two collision resolutions agree; the desired name is returned
\* unchanged when the target directory does not exist or the name is free
\* there; otherwise the result is {stem}-{i}{suffix} for the smallest free i in
\* 1..999, and {stem}-{unix timestamp}{suffix} only when all 999 are taken.
C4_CollisionResolution ==
    namer_choice # NotCalled =>
        /\ namer_choice = manager_choice
        /\ manager_choice =
              IF ~DirExists(dirs, desired_dir) \/ ~FileExists(dirs, desired_dir, desired)
              THEN desired
              ELSE IF FreeNumbers # {}
                   THEN NumberedName(desired, SetMin(FreeNumbers))
                   ELSE NumberedName(desired, now)

\* all 999 numbered names were taken and both functions fell back to the timestamp
C4_Witness ==
    /\ namer_choice # NotCalled
    /\ FileExists(dirs, desired_dir, desired)
    /\ FreeNumbers = {}
    /\ namer_choice = NumberedName(desired, now)
    /\ manager_choice = namer_choice

\* C5: in a sequence of rename_file / copy_file calls made one after another,
\* the name chosen for a successful call never names a file that already
\* existed in the target directory before the call.
C5_NeverExistingName ==
    [][(calls' = calls + 1 /\ result'.success) =>
          ~FileExists(dirs, result'.final_path.dir, result'.final_path.name)]_vars

----------------------------------------------------------------------------
(* Regular expressions: the backtracking matcher of Python's re.  A pattern  *)
(* is a tree of the nodes below.  M gives every way a node matches at a      *)
(* position, in the order the backtracking tries them, so the head of the    *)
(* list is the match re finds.  An outcome is <<end, group>>: the position   *)
(* after the match and the span <<start, end>> of group 1 (<<>> when the     *)
(* group has not matched).  The patterns of the program hold no cased        *)
(* letter that the texts of the model contain, so re.IGNORECASE changes      *)
(* nothing here.                                                             *)

\* no upper limit of a repetition
Unbounded == -1

Lit(s) == [k |-> "lit", s |-> s]
\* a literal under re.IGNORECASE
ILit(s) == [k |-> "ilit", s |-> s]
\* [...] without and with \d among its members, and [^...]
Class(cs) == [k |-> "class", cs |-> cs, digits |-> FALSE]
ClassWithDigits(cs) == [k |-> "class", cs |-> cs, digits |-> TRUE]
NotClass(cs) == [k |-> "notclass", cs |-> cs]
\* \d, \s and .
AnyDigit == ClassWithDigits({})
AnySpace == [k |-> "space"]
AnyChar == [k |-> "dot"]
Cat(ns) == [k |-> "cat", ns |-> ns]
Alt(ns) == [k |-> "alt", ns |-> ns]
\* greedy {lo,hi}, ?, * and +
Rep(n, lo, hi) == [k |-> "rep", n |-> n, lo |-> lo, hi |-> hi]
Opt(n) == Rep(n, 0, 1)
Star(n) == Rep(n, 0, Unbounded)
Plus(n) == Rep(n, 1, Unbounded)
\* ( ... ), the capturing group 1
Group(n) == [k |-> "group", n |-> n]

\* str.lower(), for the cased letters the texts of the model can hold: ASCII
\* and full-width Latin
LowerChar(c) ==
    IF (c >= 65 /\ c <= 90) \/ (c >= 65313 /\ c <= 65338) THEN c + 32 ELSE c
Lower(s) == [j \in 1..Len(s) |-> LowerChar(s[j])]

AsciiDigits == 48..57
FullWidthDigits == 65296..65305
\* \d of a str pattern: the decimal digits of Unicode, of which the texts of
\* the model hold the ASCII and the full-width ones
IsDigit(c) == c \in AsciiDigits \/ c \in FullWidthDigits

CharMatches(n, c) ==
    CASE n.k = "class" -> c \in n.cs \/ (n.digits /\ IsDigit(c))
      [] n.k = "notclass" -> c \notin n.cs
      [] n.k = "space" -> IsSpace(c)
      [] n.k = "dot" -> c # 10

Min(a, b) == IF a < b THEN a ELSE b

\* the nodes that match one character
IsCharNode(n) == n.k \in {"class", "notclass", "space", "dot"}

\* the end of the longest run of characters from position i on that n matches
RunEnd(n, s, i) ==
    SetMin({j \in i..(Len(s) + 1) : j = Len(s) + 1 \/ ~CharMatches(n, s[j])})

\* a greedy repetition of a one-character node: the longest run first, then
\* one character less at a time, down to n.lo characters
RepChars(n, s, i, g) ==
    LET run == RunEnd(n.n, s, i) - i
        most == IF n.hi = Unbounded THEN run ELSE Min(run, n.hi)
    IN IF most < n.lo THEN <<>>
       ELSE [r \in 1..(most - n.lo + 1) |-> <<i + most - r + 1, g>>]

RECURSIVE M(_, _, _, _)
RECURSIVE CatFrom(_, _, _, _, _)
RECURSIVE CatAll(_, _, _, _)
RECURSIVE CatEach(_, _, _, _, _, _)
RECURSIVE AltFrom(_, _, _, _, _)
RECURSIVE RepFrom(_, _, _, _, _)
RECURSIVE RepEach(_, _, _, _, _, _)

\* the outcomes of a group's body, each with the span it matched
Captured(rs, i) == [r \in 1..Len(rs) |-> <<rs[r][1], <<i, rs[r][1]>> >>]

M(n, s, i, g) ==
    CASE n.k = "lit" ->
            IF i + Len(n.s) - 1 <= Len(s) /\ SubSeq(s, i, i + Len(n.s) - 1) = n.s
            THEN << <<i + Len(n.s), g>> >>
            ELSE <<>>
      [] n.k = "ilit" ->
            IF /\ i + Len(n.s) - 1 <= Len(s)
               /\ Lower(SubSeq(s, i, i + Len(n.s) - 1)) = Lower(n.s)
            THEN << <<i + Len(n.s), g>> >>
            ELSE <<>>
      [] n.k = "cat" -> CatFrom(n.ns, 1, s, i, g)
      [] n.k = "alt" -> AltFrom(n.ns, 1, s, i, g)
      [] n.k = "rep" ->
            IF IsCharNode(n.n) THEN RepChars(n, s, i, g) ELSE RepFrom(n, 0, s, i, g)
      [] n.k = "group" -> Captured(M(n.n, s, i, g), i)
      [] OTHER ->
            IF i <= Len(s) /\ CharMatches(n, s[i]) THEN << <<i + 1, g>> >> ELSE <<>>

\* the nodes ns[j..] one after another
CatFrom(ns, j, s, i, g) ==
    IF j > Len(ns) THEN << <<i, g>> >>
    ELSE CatAll(M(ns[j], s, i, g), ns, j, s)

CatAll(rs, ns, j, s) == CatEach(rs, 1, Len(rs), ns, j, s)

\* the rest of the nodes after each of the outcomes rs[lo..hi] of ns[j], in
\* their order (by halves)
CatEach(rs, lo, hi, ns, j, s) ==
    IF lo > hi THEN <<>>
    ELSE IF lo = hi THEN CatFrom(ns, j + 1, s, rs[lo][1], rs[lo][2])
    ELSE CatEach(rs, lo, (lo + hi) \div 2, ns, j, s)
         \o CatEach(rs, (lo + hi) \div 2 + 1, hi, ns, j, s)

\* the alternatives ns[j..], the leftmost first
AltFrom(ns, j, s, i, g) ==
    IF j > Len(ns) THEN <<>>
    ELSE M(ns[j], s, i, g) \o AltFrom(ns, j + 1, s, i, g)

\* a greedy repetition that has matched c times: one more round first, then
\* none
RepFrom(n, c, s, i, g) ==
    (IF n.hi = Unbounded \/ c < n.hi
     THEN RepEach(M(n.n, s, i, g), 1, n, c, s, i)
     ELSE <<>>)
    \o (IF c >= n.lo THEN << <<i, g>> >> ELSE <<>>)

RepEach(rs, r, n, c, s, i) ==
    IF r > Len(rs) THEN <<>>
    ELSE (IF rs[r][1] > i THEN RepFrom(n, c + 1, s, rs[r][1], rs[r][2]) ELSE <<>>)
         \o RepEach(rs, r + 1, n, c, s, i)

NoMatch == [found |-> FALSE, start |-> 0, end |-> 0, group |-> <<>>]

\* the match object of the first outcome of a match at position i
MatchAt(rs, i) ==
    IF Len(rs) > 0
    THEN [found |-> TRUE, start |-> i, end |-> rs[1][1], group |-> rs[1][2]]
    ELSE NoMatch

RECURSIVE SearchIn(_, _, _, _)
RECURSIVE LeftOrRight(_, _, _, _, _)
\* the leftmost position in lo..hi the pattern matches at (by halves)
SearchIn(n, s, lo, hi) ==
    IF lo > hi THEN NoMatch
    ELSE IF lo = hi THEN MatchAt(M(n, s, lo, <<>>), lo)
    ELSE LeftOrRight(SearchIn(n, s, lo, (lo + hi) \div 2), n, s, (lo + hi) \div 2 + 1, hi)

LeftOrRight(left, n, s, lo, hi) == IF left.found THEN left ELSE SearchIn(n, s, lo, hi)

\* re.search from position i on
SearchFrom(n, s, i) == SearchIn(n, s, i, Len(s) + 1)

\* re.search(pattern, s)
Search(n, s) == SearchFrom(n, s, 1)
\* match.group(1)
Group1(s, m) == SubSeq(s, m.group[1], m.group[2] - 1)

RECURSIVE SubFrom(_, _, _, _)
RECURSIVE SubMatch(_, _, _, _, _)
\* re.sub(pattern, repl, s) from position i on; no pattern of the program
\* matches the empty string
SubFrom(n, repl, s, i) == SubMatch(n, repl, s, i, SearchFrom(n, s, i))

SubMatch(n, repl, s, i, m) ==
    IF ~m.found THEN SubSeq(s, i, Len(s))
    ELSE SubSeq(s, i, m.start - 1) \o repl \o SubFrom(n, repl, s, m.end)

Sub(n, repl, s) == SubFrom(n, repl, s, 1)

\* sub in s
Contains(s, sub) ==
    \E i \in 1..(Len(s) - Len(sub) + 1) : SubSeq(s, i, i + Len(sub) - 1) = sub

----------------------------------------------------------------------------
(* price_normalizer.py: the parsing of amounts *)

\* [0-9,，], [:：] and [万円億]
NumClass == Class(AsciiDigits \cup {44, 65292})    \* [,，]
ColonClass == Class({58, 65306})    \* [:：]
UnitClass == Class({19975, 20870, 20740})    \* [万円億]
\* \d+(?:\.\d+)?
DecimalRe == Cat(<<Plus(AnyDigit), Opt(Cat(<<Lit(<<46>>), Plus(AnyDigit)>>))>>)    \* .
\* \d+[,\d]*
DigitsCommaRe == Cat(<<Plus(AnyDigit), Star(ClassWithDigits({44}))>>)    \* [,]
\* [0-9,，]+(?:\.[0-9]+)?[万円億]+
AmountWithUnitRe ==
    Cat(<<Plus(NumClass), Opt(Cat(<<Lit(<<46>>), Plus(Class(AsciiDigits))>>)), Plus(UnitClass)>>)    \* .

_UNSPECIFIED_PATTERNS ==
    <<Lit(<<24540, 30456, 35527>>),    \* 応相談
      Cat(<<Lit(<<35201, 21839>>), Opt(Lit(<<21512>>)), Class({12379, 12375})>>),    \* 要問合?[せし]
      Lit(<<20385, 26684, 26410, 23450>>),    \* 価格未定
      Lit(<<35201, 30456, 35527>>),    \* 要相談
      Lit(<<21029, 36884, 30456, 35527>>),    \* 別途相談
      Lit(<<12362, 21839, 12356, 21512, 12431, 12379>>)>>    \* お問い合わせ

\* every pattern with its source text, which parse_amount_jpy looks into
_PRICE_PATTERNS ==
    <<[pattern |-> <<40, 92, 100, 43, 40, 63, 58, 92, 46, 92, 100, 43, 41, 63, 41, 92, 115, 42, 20740, 92, 115, 42, 40, 63, 58, 20870, 41, 63>>,    \* (\d+(?:\.\d+)?)\s*億\s*(?:円)?
       re |-> Cat(<<Group(DecimalRe), Star(AnySpace), Lit(<<20740>>), Star(AnySpace),    \* 億
                    Opt(Lit(<<20870>>))>>)],    \* 円
      [pattern |-> <<40, 91, 48, 45, 57, 44, 65292, 93, 43, 41, 92, 115, 42, 19975, 92, 115, 42, 40, 63, 58, 20870, 41, 63>>,    \* ([0-9,，]+)\s*万\s*(?:円)?
       re |-> Cat(<<Group(Plus(NumClass)), Star(AnySpace), Lit(<<19975>>), Star(AnySpace),    \* 万
                    Opt(Lit(<<20870>>))>>)],    \* 円
      [pattern |-> <<40, 91, 48, 45, 57, 44, 65292, 93, 123, 52, 44, 125, 41, 92, 115, 42, 19975, 92, 115, 42, 40, 63, 58, 20870, 41, 63>>,    \* ([0-9,，]{4,})\s*万\s*(?:円)?
       re |-> Cat(<<Group(Rep(NumClass, 4, Unbounded)), Star(AnySpace), Lit(<<19975>>),    \* 万
                    Star(AnySpace), Opt(Lit(<<20870>>))>>)],    \* 円
      [pattern |-> <<40, 91, 48, 45, 57, 44, 65292, 93, 123, 52, 44, 125, 41, 92, 115, 42, 20870>>,    \* ([0-9,，]{4,})\s*円
       re |-> Cat(<<Group(Rep(NumClass, 4, Unbounded)), Star(AnySpace), Lit(<<20870>>)>>)],    \* 円
      [pattern |-> <<40, 91, 48, 45, 57, 44, 65292, 93, 123, 55, 44, 125, 41>>,    \* ([0-9,，]{7,})
       re |-> Group(Rep(NumClass, 7, Unbounded))]>>

\* str.maketrans('０１２３４５６７８９', '0123456789')
TranslateDigit(c) == IF c \in FullWidthDigits THEN c - 65248 ELSE c
\* the characters normalize_number_string removes: , ， ¥ ￥ and both spaces
Removed == {44, 65292, 165, 65509, 32, 12288}    \* [,，¥￥ 　]
IsKept(c) == c \notin Removed

\* the mutant: the full-width comma stays
IsKeptOrWide(c) == IsKept(c) \/ c = 65292
NormalizeHalfWidthOnly(s) ==
    IF s = <<>> THEN <<>>
    ELSE SelectSeq([j \in 1..Len(s) |-> TranslateDigit(s[j])], IsKeptOrWide)

normalize_number_string(s) ==
    IF s = <<>> THEN <<>>
    ELSE SelectSeq([j \in 1..Len(s) |-> TranslateDigit(s[j])], IsKept)

check_price_unspecified(text) ==
    /\ text # <<>>
    /\ \E p \in 1..Len(_UNSPECIFIED_PATTERNS) : Search(_UNSPECIFIED_PATTERNS[p], text).found

\* int(s) and float(s) succeed; the strings that reach them hold only ASCII
\* digits, "." and the unit characters
IsIntLiteral(s) == s # <<>> /\ \A j \in 1..Len(s) : s[j] \in AsciiDigits
DotAt(s) == IF \E j \in 1..Len(s) : s[j] = 46 THEN SetMin({j \in 1..Len(s) : s[j] = 46}) ELSE 0
IntPart(s) == IF DotAt(s) = 0 THEN s ELSE SubSeq(s, 1, DotAt(s) - 1)
FracPart(s) == IF DotAt(s) = 0 THEN <<>> ELSE SubSeq(s, DotAt(s) + 1, Len(s))
IsFloatLiteral(s) ==
    /\ \A j \in 1..Len(s) : s[j] \in AsciiDigits \/ j = DotAt(s)
    /\ IntPart(s) \o FracPart(s) # <<>>

\* the amounts of the model: an amount above MaxAmount is held as Huge, which
\* stands for every greater integer
MaxAmount == 999999999
Huge == MaxAmount + 1

RECURSIVE NatFrom(_, _, _)
\* int(ds) read digit by digit from position j with acc read so far, Huge above
\* MaxAmount
NatFrom(ds, j, acc) ==
    IF j > Len(ds) THEN acc
    ELSE IF acc > (MaxAmount - (ds[j] - 48)) \div 10 THEN Huge
    ELSE NatFrom(ds, j + 1, acc * 10 + (ds[j] - 48))

\* int(ds), Huge above MaxAmount
NatOf(ds) == NatFrom(ds, 1, 0)

\* n * k, Huge above MaxAmount
TimesOf(n, k) == IF n > MaxAmount \div k THEN Huge ELSE n * k

RECURSIVE Pow10(_)
Pow10(e) == IF e = 0 THEN 1 ELSE 10 * Pow10(e - 1)

\* float(s) * 10**e as an exact decimal fraction <<numerator, denominator>>; the
\* product of the binary floats is the same number for the amounts of the
\* model, which have at most one fractional digit
DecimalTimes(s, e) ==
    LET nf == Len(FracPart(s))
    IN IF nf <= e
       THEN <<ParseNat(IntPart(s)) * Pow10(e) + ParseNat(FracPart(s)) * Pow10(e - nf), 1>>
       ELSE <<ParseNat(IntPart(s) \o FracPart(s)), Pow10(nf - e)>>

\* int(round(x)) of x = q[1] / q[2] >= 0: to the nearest, a tie to the even
RoundHalfEven(q) ==
    LET d == q[1] \div q[2]
        r == q[1] % q[2]
    IN IF 2 * r > q[2] \/ (2 * r = q[2] /\ d % 2 = 1) THEN d + 1 ELSE d

\* int(x) of x = q[1] / q[2] >= 0
Truncate(q) == q[1] \div q[2]

\* int(round(float(number_str) * 100_000_000))
OkuOf(number_str) ==
    IF NatOf(IntPart(number_str)) > MaxAmount \div 100000000 THEN Huge
    ELSE RoundHalfEven(DecimalTimes(number_str, 8))

\* int(float(number_str) * 10_000)
ManOf(number_str) ==
    IF NatOf(IntPart(number_str)) > MaxAmount \div 10000 THEN Huge
    ELSE Truncate(DecimalTimes(number_str, 4))

\* the mutant: a bare run gives its number whatever its size
PriceOfMatchAnySize(pattern, number_str) ==
    IF Contains(pattern, <<20740>>)    \* 億
    THEN (IF IsFloatLiteral(number_str)
          THEN PyInt(OkuOf(number_str))
          ELSE NoneInt)
    ELSE IF ~IsIntLiteral(number_str) THEN NoneInt
    ELSE IF Contains(pattern, <<19975>>) THEN PyInt(TimesOf(NatOf(number_str), 10000))    \* 万
    ELSE PyInt(NatOf(number_str))

\* the body of the try block for the first match number_str of pattern: the
\* amount, or None where the code raises ValueError or falls through to the
\* next pattern
PriceOfMatch(pattern, number_str) ==
    IF Contains(pattern, <<20740>>)    \* 億
    THEN (IF IsFloatLiteral(number_str)
          THEN PyInt(OkuOf(number_str))
          ELSE NoneInt)
    ELSE IF ~IsIntLiteral(number_str) THEN NoneInt
    ELSE IF Contains(pattern, <<19975>>) THEN PyInt(TimesOf(NatOf(number_str), 10000))    \* 万
    ELSE IF Contains(pattern, <<20870>>) THEN PyInt(NatOf(number_str))    \* 円
    ELSE IF NatOf(number_str) >= 1000000 THEN PyInt(NatOf(number_str))
    ELSE NoneInt

RECURSIVE PriceLoop(_, _)
RECURSIVE PriceStep(_, _, _)
RECURSIVE PriceNext(_, _, _)
\* for pattern in _PRICE_PATTERNS[p..]
PriceLoop(text, p) ==
    IF p > Len(_PRICE_PATTERNS) THEN NoneInt
    ELSE PriceStep(text, p, Search(_PRICE_PATTERNS[p].re, text))

\* matches = pattern.findall(text); if matches: number_str = normalize(matches[0])
PriceStep(text, p, m) ==
    IF ~m.found THEN PriceLoop(text, p + 1)
    ELSE PriceNext(text, p, PriceOfMatch(_PRICE_PATTERNS[p].pattern,
                                         normalize_number_string(Group1(text, m))))

\* return the amount, or continue with the next pattern
PriceNext(text, p, amount) ==
    IF amount.t = "None" THEN PriceLoop(text, p + 1) ELSE amount

parse_amount_jpy(text) ==
    IF text = <<>> THEN NoneInt
    ELSE IF check_price_unspecified(text) THEN NoneInt
    ELSE PriceLoop(text, 1)

rent_patterns ==
    <<[pattern |-> <<40, 63, 58, 40, 63, 58, 23478, 36035, 124, 36035, 26009, 124, 26376, 38989, 41, 92, 115, 42, 91, 58, 65306, 93, 63, 92, 115, 42, 41, 40, 92, 100, 43, 91, 44, 92, 100, 93, 42, 41, 92, 115, 42, 40, 63, 58, 20870, 124, 165, 41, 63>>,    \* (?:(?:家賃|賃料|月額)\s*[:：]?\s*)(\d+[,\d]*)\s*(?:円|¥)?
       re |-> Cat(<<Alt(<<Lit(<<23478, 36035>>), Lit(<<36035, 26009>>), Lit(<<26376, 38989>>)>>), Star(AnySpace),    \* 家賃 賃料 月額
                    Opt(ColonClass), Star(AnySpace), Group(DigitsCommaRe), Star(AnySpace),
                    Opt(Alt(<<Lit(<<20870>>), Lit(<<165>>)>>))>>)],    \* 円 ¥
      [pattern |-> <<40, 92, 100, 43, 91, 44, 92, 100, 93, 42, 41, 92, 115, 42, 40, 63, 58, 20870, 124, 165, 41, 92, 115, 42, 40, 63, 58, 65295, 124, 92, 47, 41, 63, 92, 115, 42, 40, 63, 58, 26376, 41, 63>>,    \* (\d+[,\d]*)\s*(?:円|¥)\s*(?:／|\/)?\s*(?:月)?
       re |-> Cat(<<Group(DigitsCommaRe), Star(AnySpace), Alt(<<Lit(<<20870>>), Lit(<<165>>)>>),    \* 円 ¥
                    Star(AnySpace), Opt(Alt(<<Lit(<<65295>>), Lit(<<47>>)>>)), Star(AnySpace),    \* ／ /
                    Opt(Lit(<<26376>>))>>)],    \* 月
      [pattern |-> <<40, 92, 100, 43, 40, 63, 58, 92, 46, 92, 100, 43, 41, 63, 41, 92, 115, 42, 19975, 20870>>,    \* (\d+(?:\.\d+)?)\s*万円
       re |-> Cat(<<Group(DecimalRe), Star(AnySpace), Lit(<<19975, 20870>>)>>)],    \* 万円
      [pattern |-> <<36035, 26009, 91, 58, 65306, 93, 63, 92, 115, 42, 40, 91, 48, 45, 57, 44, 65292, 93, 43, 40, 63, 58, 92, 46, 91, 48, 45, 57, 93, 43, 41, 63, 91, 19975, 20870, 20740, 93, 43, 41>>,    \* 賃料[:：]?\s*([0-9,，]+(?:\.[0-9]+)?[万円億]+)
       re |-> Cat(<<Lit(<<36035, 26009>>), Opt(ColonClass), Star(AnySpace), Group(AmountWithUnitRe)>>)],    \* 賃料
      [pattern |-> <<23478, 36035, 91, 58, 65306, 93, 63, 92, 115, 42, 40, 91, 48, 45, 57, 44, 65292, 93, 43, 40, 63, 58, 92, 46, 91, 48, 45, 57, 93, 43, 41, 63, 91, 19975, 20870, 20740, 93, 43, 41>>,    \* 家賃[:：]?\s*([0-9,，]+(?:\.[0-9]+)?[万円億]+)
       re |-> Cat(<<Lit(<<23478, 36035>>), Opt(ColonClass), Star(AnySpace), Group(AmountWithUnitRe)>>)]>>    \* 家賃

price_patterns ==
    <<[pattern |-> <<40, 92, 100, 43, 40, 63, 58, 92, 46, 92, 100, 43, 41, 63, 41, 92, 115, 42, 20740, 40, 63, 58, 20870, 41, 63>>,    \* (\d+(?:\.\d+)?)\s*億(?:円)?
       re |-> Cat(<<Group(DecimalRe), Star(AnySpace), Lit(<<20740>>), Opt(Lit(<<20870>>))>>)],    \* 億 円
      [pattern |-> <<40, 92, 100, 43, 91, 44, 92, 100, 93, 42, 41, 92, 115, 42, 19975, 40, 63, 58, 20870, 41, 63>>,    \* (\d+[,\d]*)\s*万(?:円)?
       re |-> Cat(<<Group(DigitsCommaRe), Star(AnySpace), Lit(<<19975>>), Opt(Lit(<<20870>>))>>)],    \* 万 円
      [pattern |-> <<40, 63, 58, 36009, 22770, 41, 63, 20385, 26684, 91, 58, 65306, 93, 63, 92, 115, 42, 40, 91, 48, 45, 57, 44, 65292, 93, 43, 40, 63, 58, 92, 46, 91, 48, 45, 57, 93, 43, 41, 63, 91, 19975, 20870, 20740, 93, 43, 41>>,    \* (?:販売)?価格[:：]?\s*([0-9,，]+(?:\.[0-9]+)?[万円億]+)
       re |-> Cat(<<Opt(Lit(<<36009, 22770>>)), Lit(<<20385, 26684>>), Opt(ColonClass), Star(AnySpace),    \* 販売 価格
                    Group(AmountWithUnitRe)>>)],
      [pattern |-> <<22770, 20986, 91, 58, 20385, 93, 63, 91, 58, 65306, 93, 63, 92, 115, 42, 40, 91, 48, 45, 57, 44, 65292, 93, 43, 40, 63, 58, 92, 46, 91, 48, 45, 57, 93, 43, 41, 63, 91, 19975, 20870, 20740, 93, 43, 41>>,    \* 売出[:価]?[:：]?\s*([0-9,，]+(?:\.[0-9]+)?[万円億]+)
       re |-> Cat(<<Lit(<<22770, 20986>>), Opt(Class({58, 20385})), Opt(ColonClass), Star(AnySpace),    \* 売出 [:価]
                    Group(AmountWithUnitRe)>>)]>>

\* an exception that leaves the function
Raise(exception) == [t |-> "raise", v |-> exception]
IsRaise(x) == "t" \in DOMAIN x /\ x.t = "raise"

\* a string of digits without its leading zeros
SigDigits(ds) ==
    IF \E j \in 1..Len(ds) : ds[j] # 48
    THEN SubSeq(ds, SetMin({j \in 1..Len(ds) : ds[j] # 48}), Len(ds))
    ELSE <<>>

\* int(a) > int(b), for digits without leading zeros
DigitsGreater(a, b) ==
    \/ Len(a) > Len(b)
    \/ /\ Len(a) = Len(b)
       /\ \E j \in 1..Len(a) : a[j] > b[j] /\ \A m \in 1..(j - 1) : a[m] = b[m]

\* the greatest number whose float times 10,000 is finite: it lies halfway
\* between two floats and rounds to the lower one, and the upper one times
\* 10,000 is the infinite float
LargestManFloat ==
    <<49, 55, 57, 55, 54, 57, 51, 49, 51, 52, 56, 54, 50, 51, 49, 53, 56, 55, 50, 48, 54, 49, 52, 53, 53, 57, 48, 57, 48, 54, 53, 48, 50, 56, 48, 57, 57, 53, 50, 52, 53, 57, 55, 52, 51, 57, 51, 49, 57, 49, 49, 55, 51, 53, 52, 57, 50, 55, 51, 49, 48, 53, 49, 50, 55, 55, 57, 53, 57, 57, 50, 48, 57, 55, 49, 56, 52, 55, 49, 57, 57, 55, 57, 50, 55, 54, 57, 50, 53, 54, 53, 48, 49, 56, 57, 53, 53, 56, 50, 53, 49, 56, 55, 48, 52, 57, 57, 57, 55, 54, 55, 48, 53, 53, 54, 51, 56, 52, 56, 49, 49, 57, 55, 49, 57, 48, 52, 50, 56, 49, 49, 56, 56, 52, 52, 48, 54, 55, 51, 52, 54, 55, 57, 49, 50, 53, 57, 57, 55, 53, 49, 52, 49, 55, 48, 51, 51, 51, 48, 50, 50, 52, 53, 52, 50, 57, 55, 52, 52, 51, 52, 51, 51, 51, 55, 50, 55, 56, 53, 52, 53, 56, 49, 52, 49, 55, 49, 55, 54, 57, 54, 53, 49, 56, 54, 55, 52, 52, 48, 54, 57, 48, 52, 50, 55, 50, 53, 51, 55, 48, 52, 55, 49, 55, 49, 51, 52, 57, 57, 52, 54, 56, 57, 52, 56, 53, 51, 54, 50, 49, 51, 55, 48, 52, 57, 56, 52, 50, 54, 57, 56, 52, 54, 51, 48, 51, 48, 48, 55, 48, 50, 48, 49, 56, 49, 52, 50, 55, 52, 50, 50, 57, 52, 52, 56, 56, 51, 57, 52, 52, 57, 57, 52, 56, 52, 52, 48, 48, 50, 51, 49, 52, 49, 51, 52, 48, 55, 50, 56, 56, 54, 48, 57, 50, 51, 57, 50, 53, 56, 51, 54, 53, 57, 53, 50>>    \* 17976931348623158720614559090650280995245974393191173549273105127795992097184719979276925650189558251870499976705563848119719042811884406734679125997514170333022454297443433372785458141717696518674406904272537047171349946894853621370498426984630300702018142742294488394499484400231413407288609239258365952

\* float(number_str) * 10_000 is the infinite float
IsInfiniteMan(number_str) ==
    \/ DigitsGreater(SigDigits(IntPart(number_str)), LargestManFloat)
    \/ /\ SigDigits(IntPart(number_str)) = LargestManFloat
       /\ \E j \in 1..Len(FracPart(number_str)) : FracPart(number_str)[j] # 48

\* int(float(normalize_number_string(amount_text)) * 10000): None on
\* ValueError, which the loop catches; int() of the infinite float raises
\* OverflowError, which it does not catch
ManYenOf(number_str) ==
    IF ~IsFloatLiteral(number_str) THEN NoneInt
    ELSE IF IsInfiniteMan(number_str) THEN Raise("OverflowError")
    ELSE PyInt(ManOf(number_str))

\* the amount a matched rent pattern gives: the 万円 branch, else
\* parse_amount_jpy(amount_text) when it is truthy
RentOfMatch(pattern, amount_text, amount) ==
    IF Contains(pattern, <<19975, 20870>>) THEN ManYenOf(normalize_number_string(amount_text))    \* 万円
    ELSE IF TruthyInt(amount) THEN amount
    ELSE NoneInt

\* the amount a matched price pattern gives
SellOfMatch(amount) == IF TruthyInt(amount) THEN amount ELSE NoneInt

RECURSIVE RentLoop(_, _)
RECURSIVE RentStep(_, _, _)
RECURSIVE RentText(_, _, _)
RECURSIVE RentNext(_, _, _)
\* for pattern in rent_patterns[p..]: the amount the rent role gets, None when
\* the loop ends without one
RentLoop(text, p) ==
    IF p > Len(rent_patterns) THEN NoneInt
    ELSE RentStep(text, p, Search(rent_patterns[p].re, text))

\* match = re.search(pattern, text); amount_text = match.group(1)
RentStep(text, p, m) ==
    IF ~m.found THEN RentLoop(text, p + 1) ELSE RentText(text, p, Group1(text, m))

RentText(text, p, amount_text) ==
    RentNext(text, p, RentOfMatch(rent_patterns[p].pattern, amount_text,
                                  parse_amount_jpy(amount_text)))

\* break with the amount, or continue with the next pattern
RentNext(text, p, amount) ==
    IF amount.t = "None" THEN RentLoop(text, p + 1) ELSE amount

RECURSIVE SellLoop(_, _)
RECURSIVE SellStep(_, _, _)
RECURSIVE SellNext(_, _, _)
\* for pattern in price_patterns[p..]: the amount the price role gets
SellLoop(text, p) ==
    IF p > Len(price_patterns) THEN NoneInt
    ELSE SellStep(text, p, Search(price_patterns[p].re, text))

SellStep(text, p, m) ==
    IF ~m.found THEN SellLoop(text, p + 1)
    ELSE SellNext(text, p, SellOfMatch(parse_amount_jpy(Group1(text, m))))

SellNext(text, p, amount) ==
    IF amount.t = "None" THEN SellLoop(text, p + 1) ELSE amount

\* a dict with the keys among rent, price and price_unspecified
EmptyDict == [key \in {} |-> NoneInt]
UnspecifiedDict == [key \in {"price_unspecified"} |-> PyTrue]

\* the dict with amounts['rent'] and amounts['price'] set where the loops
\* found an amount
AmountsDict(rent, price) ==
    [key \in (IF rent.t # "None" THEN {"rent"} ELSE {})
             \cup (IF price.t # "None" THEN {"price"} ELSE {}) |->
        IF key = "rent" THEN rent ELSE price]

\* the price loop runs when the rent loop has ended without an exception
RolesOrRaise(text, rent) ==
    IF rent.t = "raise" THEN rent ELSE AmountsDict(rent, SellLoop(text, 1))

extract_multiple_amounts(text) ==
    IF text = <<>> THEN EmptyDict
    ELSE IF check_price_unspecified(text) THEN UnspecifiedDict
    ELSE RolesOrRaise(text, RentLoop(text, 1))

----------------------------------------------------------------------------
(* property_cleaner.py: clean_name and extract_name_candidates *)

\* \d{1,4}\s*[号]|\d{1,3}\s*F|\d{1,3}\s*階|#\s*\d{1,4}|-\d{1,4}|\d{1,4}\s*室
_ROOM ==
    Alt(<<Cat(<<Rep(AnyDigit, 1, 4), Star(AnySpace), Class({21495})>>),    \* [号]
          Cat(<<Rep(AnyDigit, 1, 3), Star(AnySpace), Lit(<<70>>)>>),    \* F
          Cat(<<Rep(AnyDigit, 1, 3), Star(AnySpace), Lit(<<38542>>)>>),    \* 階
          Cat(<<Lit(<<35>>), Star(AnySpace), Rep(AnyDigit, 1, 4)>>),    \* #
          Cat(<<Lit(<<45>>), Rep(AnyDigit, 1, 4)>>),    \* -
          Cat(<<Rep(AnyDigit, 1, 4), Star(AnySpace), Lit(<<23460>>)>>)>>)    \* 室

_NOISE_TOKENS ==
    <<<<25522, 36617, 29992>>, <<12481, 12521, 12471>>, <<26032, 30528>>, <<20385, 26684, 25913, 23450>>, <<26356, 26032, 26085>>, <<78, 111, 46>>, <<65326, 65359, 65294>>, <<29289, 20214, 78, 111>>,    \* 掲載用 チラシ 新着 価格改定 更新日 No. Ｎｏ． 物件No
      <<78, 69, 87>>, <<26356, 26032>>, <<25913, 23450>>, <<20516, 19979, 12370>>, <<25104, 32004>>, <<21830, 35527, 20013>>, <<22259, 38754>>, <<38291, 21462, 12426>>>>    \* NEW 更新 改定 値下げ 成約 商談中 図面 間取り

\* [（(](?:掲載用|新着|価格改定|更新日|NEW|更新|改定|値下げ)[)）]
_BRACKET_NOISE ==
    Cat(<<Class({65288, 40}),    \* [（(]
          Alt(<<Lit(<<25522, 36617, 29992>>), Lit(<<26032, 30528>>), Lit(<<20385, 26684, 25913, 23450>>), Lit(<<26356, 26032, 26085>>), Lit(<<78, 69, 87>>),    \* 掲載用 新着 価格改定 更新日 NEW
                Lit(<<26356, 26032>>), Lit(<<25913, 23450>>), Lit(<<20516, 19979, 12370>>)>>),    \* 更新 改定 値下げ
          Class({41, 65289})>>)    \* [)）]

OneSpace == <<32>>

RECURSIVE RemoveNoise(_, _)
\* for token in _NOISE_TOKENS[t..]: s = re.sub(re.escape(token), " ", s, flags=re.IGNORECASE)
RemoveNoise(s, t) ==
    IF t > Len(_NOISE_TOKENS) THEN s
    ELSE CHOOSE r \in {RemoveNoise(next, t + 1) :
                          next \in {Sub(ILit(_NOISE_TOKENS[t]), OneSpace, s)}} : TRUE

\* str.isdigit()
IsDigitStr(s) == s # <<>> /\ \A j \in 1..Len(s) : IsDigit(s[j])

\* the final checks of clean_name on the cleaned string
CleanedOrNone(s) ==
    IF Len(s) < 2 THEN NoneStr
    ELSE IF IsDigitStr(s) THEN NoneStr
    ELSE PyStr(s)

\* the mutant: the cleaned string is not sanitized
CleanStrippedRaw(s) ==
    IF s = <<>> THEN NoneStr
    ELSE CleanedOrNone(RemoveNoise(Sub(_ROOM, OneSpace, Sub(_BRACKET_NOISE, OneSpace, s)), 1))

\* clean_name after the first s = raw.strip()
CleanStripped(s) ==
    IF s = <<>> THEN NoneStr
    ELSE CleanedOrNone(sanitize_filename(
             RemoveNoise(Sub(_ROOM, OneSpace, Sub(_BRACKET_NOISE, OneSpace, s)), 1)))

clean_name(raw) == IF raw = <<>> THEN NoneStr ELSE CleanStripped(Strip(raw))

\* the line boundaries of str.splitlines()
LineBreaks == {10, 11, 12, 13, 28, 29, 30, 133, 8232, 8233}

RECURSIVE SplitLinesFrom(_, _)
SplitLinesFrom(s, i) ==
    IF i > Len(s) THEN <<>>
    ELSE LET breaks == {j \in i..Len(s) : s[j] \in LineBreaks}
             j == SetMin(breaks)
             next == IF s[j] = 13 /\ j < Len(s) /\ s[j + 1] = 10 THEN j + 2 ELSE j + 1
         IN IF breaks = {} THEN <<SubSeq(s, i, Len(s))>>
            ELSE <<SubSeq(s, i, j - 1)>> \o SplitLinesFrom(s, next)

SplitLines(s) == SplitLinesFrom(s, 1)

\* the first 50 lines
MaxLines == 50
MaxCandidates == 10
MinLineLen == 3

Symbols == {91, 93, 65288, 65289, 40, 41, 47, 42, 45, 8212, 95, 58, 59, 35, 124, 60, 62, 8251, 8594, 8592, 8593, 8595, 9733, 9734, 9679, 9675, 9632, 9633, 9650, 9651, 9660, 9661}    \* [[]（）()/*-—_:;#|<>※→←↑↓★☆●○■□▲△▼▽]
IsJapanese(c) ==
    \/ (c >= 12352 /\ c <= 12447)      \* hiragana
    \/ (c >= 12448 /\ c <= 12543)      \* katakana
    \/ (c >= 19968 /\ c <= 40879)      \* kanji

\* calculate_score(line) times 20 * len(line), for a line of 3 characters or
\* more: the score is japanese_bonus + length_bonus - symbol_penalty -
\* digit_penalty, a sum of fractions over len(line) and 20
ScoreNum(line) ==
    LET n == Len(line)
        symbol_count == Cardinality({j \in 1..n : line[j] \in Symbols})
        digit_count == Cardinality({j \in 1..n : IsDigit(line[j])})
        digit_penalty == IF 2 * digit_count > n THEN digit_count ELSE 0
        length_bonus == IF 3 <= n /\ n <= 30 THEN Min(n, 20) ELSE 0
        japanese_chars == Cardinality({j \in 1..n : IsJapanese(line[j])})
    IN 20 * (japanese_chars - symbol_count - digit_penalty) + n * length_bonus

\* The floats of calculate_score. A float is a sign and a magnitude below 4,
\* held as bits: 2 bits before the point and FracBits after it; every float
\* the function meets, for a line shorter than 2048 characters, is on this
\* grid.
Significand == 53
FracBits == Significand + 11
Width == FracBits + 2
ZeroBits == [i \in 1..Width |-> 0]
Float(neg, bits) == [neg |-> neg, bits |-> bits]

SquareMod(x, n) == (x * x) % n

RECURSIVE Pow2Mod(_, _)
\* 2**k % n
Pow2Mod(k, n) ==
    IF k = 0 THEN 1 % n
    ELSE IF k % 2 = 1 THEN (2 * Pow2Mod(k - 1, n)) % n
    ELSE SquareMod(Pow2Mod(k \div 2, n), n)

\* the first k bits after the point of r / n, for r < n
QuotientBits(r, n, k) == [i \in 1..k |-> (2 * ((r * Pow2Mod(i - 1, n)) % n)) \div n]

\* what is left of r / n after its first k bits
QuotientRest(r, n, k) == (r * Pow2Mod(k, n)) % n

\* bits + 1 at position cut
Increment(bits, cut, zero) ==
    [i \in 1..Width |-> IF i = zero THEN 1 ELSE IF i > zero /\ i <= cut THEN 0 ELSE bits[i]]

\* round to nearest, ties to even, at position cut; sticky: the exact number
\* has more below the last bit
RoundAt(bits, cut, sticky) ==
    IF cut >= Width THEN bits
    ELSE IF /\ bits[cut + 1] = 1
            /\ \/ sticky
               \/ \E i \in (cut + 2)..Width : bits[i] = 1
               \/ bits[cut] = 1
    THEN Increment([i \in 1..Width |-> IF i <= cut THEN bits[i] ELSE 0], cut,
                   SetMax({i \in 1..cut : bits[i] = 0}))
    ELSE [i \in 1..Width |-> IF i <= cut THEN bits[i] ELSE 0]

\* the nearest float: Significand bits from the leading bit on
RoundBits(bits, sticky) ==
    IF bits = ZeroBits THEN bits
    ELSE RoundAt(bits, SetMin({i \in 1..Width : bits[i] = 1}) + Significand - 1, sticky)

\* a / b for ints 0 <= a < 4 * b
FloatDiv(a, b) ==
    Float(FALSE, RoundBits(<<(a \div b) \div 2, (a \div b) % 2>> \o QuotientBits(a % b, b, FracBits),
                           QuotientRest(a % b, b, FracBits) # 0))

\* x + y and x - y of magnitudes, exact on the grid
AddBits(x, y) ==
    [i \in 1..Width |->
        (x[i] + y[i] +
         (IF \E k \in (i + 1)..Width :
                 /\ x[k] + y[k] = 2
                 /\ \A m \in (i + 1)..(k - 1) : x[m] + y[m] >= 1
          THEN 1 ELSE 0)) % 2]
SubBits(x, y) ==
    [i \in 1..Width |->
        (2 + x[i] - y[i] -
         (IF \E k \in (i + 1)..Width :
                 /\ x[k] < y[k]
                 /\ \A m \in (i + 1)..(k - 1) : x[m] <= y[m]
          THEN 1 ELSE 0)) % 2]
GreaterBits(x, y) ==
    \E i \in 1..Width : x[i] > y[i] /\ \A m \in 1..(i - 1) : x[m] = y[m]

\* x + y
FloatAdd(x, y) ==
    IF x.neg = y.neg THEN Float(x.neg, RoundBits(AddBits(x.bits, y.bits), FALSE))
    ELSE IF GreaterBits(y.bits, x.bits)
    THEN Float(y.neg, RoundBits(SubBits(y.bits, x.bits), FALSE))
    ELSE Float(x.neg, RoundBits(SubBits(x.bits, y.bits), FALSE))

\* x - y
FloatSub(x, y) == FloatAdd(x, Float(~y.neg, y.bits))

\* x > y
FloatGreater(x, y) ==
    IF x.bits = ZeroBits /\ y.bits = ZeroBits THEN FALSE
    ELSE IF x.neg # y.neg THEN y.neg
    ELSE IF x.neg THEN GreaterBits(y.bits, x.bits)
    ELSE GreaterBits(x.bits, y.bits)

\* japanese_bonus + length_bonus - symbol_penalty - digit_penalty, in floats
FloatSum(japanese_bonus, length_bonus, symbol_penalty, digit_penalty) ==
    FloatSub(FloatSub(FloatAdd(japanese_bonus, length_bonus), symbol_penalty), digit_penalty)

DigitPenalty(digit_count, n) ==
    IF 2 * digit_count > n THEN FloatDiv(digit_count, n) ELSE Float(FALSE, ZeroBits)

LengthBonus(n) ==
    IF 3 <= n /\ n <= 30 THEN FloatDiv(Min(n, 20), 20) ELSE Float(FALSE, ZeroBits)

\* calculate_score(line), for a line of 3 characters or more
calculate_score(line) ==
    FloatSum(FloatDiv(Cardinality({j \in 1..Len(line) : IsJapanese(line[j])}), Len(line)),
             LengthBonus(Len(line)),
             FloatDiv(Cardinality({j \in 1..Len(line) : line[j] \in Symbols}), Len(line)),
             DigitPenalty(Cardinality({j \in 1..Len(line) : IsDigit(line[j])}), Len(line)))

\* line a has a greater score than line b. Two scores that differ as fractions
\* differ by 1 / (20 * len(a) * len(b)) or more, far above the rounding of the
\* floats, so that the floats decide only between scores equal as fractions.
ScoreGreater(a, b) ==
    \/ ScoreNum(a) * Len(b) > ScoreNum(b) * Len(a)
    \/ /\ ScoreNum(a) * Len(b) = ScoreNum(b) * Len(a)
       /\ FloatGreater(calculate_score(a), calculate_score(b))

\* seq[:n]
Take(seq, n) == SubSeq(seq, 1, Min(n, Len(seq)))

\* [line.strip() for line in lines], then the lines of 3 characters or more
LongLines(lines) ==
    SelectSeq([j \in 1..Len(lines) |-> Strip(lines[j])], LAMBDA line : Len(line) >= MinLineLen)

\* line i comes before line j in sorted(lines, key=calculate_score,
\* reverse=True), a stable sort
Before(lines, i, j) ==
    \/ ScoreGreater(lines[i], lines[j])
    \/ (~ScoreGreater(lines[j], lines[i]) /\ i < j)

\* the position of line i in the sorted list
Rank(lines, i) == 1 + Cardinality({j \in 1..Len(lines) : j # i /\ Before(lines, j, i)})

SortedByScore(lines) ==
    [r \in 1..Len(lines) |-> lines[CHOOSE i \in 1..Len(lines) : Rank(lines, i) = r]]

extract_name_candidates(text) ==
    IF text = <<>> THEN <<>>
    ELSE Take(SortedByScore(LongLines(Take(SplitLines(text), MaxLines))), MaxCandidates)

----------------------------------------------------------------------------
(* info_parser.py *)

_SELL_HINTS ==
    <<<<36009, 22770, 20385, 26684>>, <<22770, 20986, 20385, 26684>>, <<20385, 26684>>, <<22770, 36023>>, <<22770, 20986>>, <<36092, 20837>>, <<20998, 35698>>, <<22770, 21364>>, <<36009, 22770>>>>    \* 販売価格 売出価格 価格 売買 売出 購入 分譲 売却 販売
_RENT_HINTS ==
    <<<<36035, 26009>>, <<23478, 36035>>, <<26376, 38989>>, <<31649, 29702, 36027>>, <<25975, 37329>>, <<31036, 37329>>, <<36035, 36024>>, <<36024>>, <<12486, 12490, 12531, 12488>>>>    \* 賃料 家賃 月額 管理費 敷金 礼金 賃貸 貸 テナント

strong_sell_patterns ==
    <<Alt(<<Lit(<<22770, 36023>>), Lit(<<20998, 35698>>), Lit(<<36092, 20837>>), Lit(<<36009, 22770, 20385, 26684>>)>>),     \* 売買|分譲|購入|販売価格
      Cat(<<Plus(AnyDigit), Alt(<<Lit(<<19975>>), Lit(<<20740>>)>>), Lit(<<20870>>),    \* 万 億 円
            Star(AnyChar), Lit(<<22770>>)>>)>>                                   \* \d+(?:万|億)円.*売
strong_rent_patterns ==
    <<Alt(<<Lit(<<36035, 36024>>), Lit(<<12486, 12490, 12531, 12488>>), Lit(<<26376, 38989>>)>>),                   \* 賃貸|テナント|月額
      Cat(<<Lit(<<23478, 36035>>), Star(AnyChar), Plus(AnyDigit),    \* 家賃
            Opt(Alt(<<Lit(<<19975>>), Cat(<<Lit(<<44>>), Plus(AnyDigit)>>)>>)),    \* 万 ,
            Lit(<<20870>>)>>),                                                   \* 家賃.*\d+(?:万|,\d+)?円
      Alt(<<Lit(<<25975, 37329>>), Lit(<<31036, 37329>>), Lit(<<31649, 29702, 36027>>)>>)>>                    \* 敷金|礼金|管理費

\* sum(1 for hint in hints if hint.lower() in normalized_text)
KeywordScore(hints, normalized_text) ==
    Cardinality({h \in 1..Len(hints) : Contains(normalized_text, Lower(hints[h]))})
\* 3 for every strong pattern found
StrongScore(patterns, normalized_text) ==
    3 * Cardinality({p \in 1..Len(patterns) : Search(patterns[p], normalized_text).found})

\* sell_score and rent_score of the lower-cased text
SellScoreOf(normalized_text) ==
    KeywordScore(_SELL_HINTS, normalized_text) + StrongScore(strong_sell_patterns, normalized_text)
RentScoreOf(normalized_text) ==
    KeywordScore(_RENT_HINTS, normalized_text) + StrongScore(strong_rent_patterns, normalized_text)

\* the comparison of the two scores
KindOfScores(sell_score, rent_score) ==
    IF rent_score > sell_score THEN "rent"
    ELSE IF sell_score > rent_score THEN "sell"
    ELSE "unknown"

\* the same with a tie going to rent
KindOfScoresTieRent(sell_score, rent_score) ==
    IF rent_score >= sell_score THEN "rent" ELSE "sell"

KindOfNormalized(normalized_text) ==
    KindOfScores(SellScoreOf(normalized_text), RentScoreOf(normalized_text))

\* the mutant: a tie goes to rent
DetectKindTieRent(text) ==
    IF text = <<>> THEN "unknown"
    ELSE KindOfScoresTieRent(SellScoreOf(Lower(text)), RentScoreOf(Lower(text)))

detect_kind(text) == IF text = <<>> THEN "unknown" ELSE KindOfNormalized(Lower(text))

\* max(amounts.values()); True counts as 1
MaxValue(amounts) ==
    CHOOSE x \in {amounts[key] : key \in DOMAIN amounts} :
        \A key \in DOMAIN amounts : amounts[key].v <= x.v

\* extract_amount with amounts = extract_multiple_amounts(text) and
\* amount = parse_amount_jpy(text) (which the code computes only when the roles
\* did not decide)
AmountOfRoles(transaction_kind, amounts, amount) ==
    IF transaction_kind = "rent" /\ "rent" \in DOMAIN amounts THEN amounts["rent"]
    ELSE IF transaction_kind = "rent" /\ "price" \in DOMAIN amounts THEN amounts["price"]
    ELSE IF transaction_kind = "sell" /\ "price" \in DOMAIN amounts THEN amounts["price"]
    ELSE IF transaction_kind = "sell" /\ "rent" \in DOMAIN amounts THEN amounts["rent"]
    ELSE IF TruthyInt(amount) THEN amount
    ELSE IF DOMAIN amounts # {} THEN MaxValue(amounts)
    ELSE NoneInt

\* an exception of extract_multiple_amounts leaves extract_amount
AmountOrRaise(text, transaction_kind, amounts) ==
    IF IsRaise(amounts) THEN amounts
    ELSE AmountOfRoles(transaction_kind, amounts, parse_amount_jpy(text))

extract_amount(text, transaction_kind) ==
    IF text = <<>> THEN NoneInt
    ELSE AmountOrRaise(text, transaction_kind, extract_multiple_amounts(text))

\* 物件名[:：]\s*([^\n\r]+) and the like
NameField(label) == Cat(<<ILit(label), ColonClass, Star(AnySpace), Group(Plus(NotClass({10, 13})))>>)
_NAME_PATTERNS ==
    <<NameField(<<29289, 20214, 21517>>), NameField(<<24314, 29289, 21517>>), NameField(<<12510, 12531, 12471, 12519, 12531, 21517>>),    \* 物件名 建物名 マンション名
      NameField(<<12450, 12497, 12540, 12488, 21517>>)>>    \* アパート名

\* the name the explicit field _NAME_PATTERNS[p] gives: None when the pattern
\* does not match, or when the match does not clean to a name
NameOfMatch(text, m) == IF m.found THEN clean_name(Group1(text, m)) ELSE NoneStr
FieldName(text, p) == NameOfMatch(text, Search(_NAME_PATTERNS[p], text))

\* the first truthy name of a sequence of cleaned names, None without one
FirstTruthy(names) ==
    IF \E r \in 1..Len(names) : TruthyStr(names[r])
    THEN names[SetMin({r \in 1..Len(names) : TruthyStr(names[r])})]
    ELSE NoneStr

\* the fallback: the first candidate line that cleans to a name
NameOfCandidates(candidates) ==
    FirstTruthy([r \in 1..Len(candidates) |-> clean_name(candidates[r])])

\* the mutant: the candidate lines first, the explicit field when no
\* candidate gives a name
CandidatesOrField(text, field) ==
    IF TruthyStr(NameOfCandidates(extract_name_candidates(text)))
    THEN NameOfCandidates(extract_name_candidates(text))
    ELSE field

\* the explicit field first, the candidates when no field gives a name
FieldOrCandidates(text, field) ==
    IF TruthyStr(field) THEN field ELSE NameOfCandidates(extract_name_candidates(text))

extract_name(text) ==
    IF text = <<>> THEN NoneStr
    ELSE FieldOrCandidates(text, FirstTruthy([p \in 1..Len(_NAME_PATTERNS) |-> FieldName(text, p)]))

\* an exception of extract_amount leaves parse_info
ParsedOrRaise(kind, name, amount) ==
    IF amount.t = "raise" THEN amount ELSE [kind |-> kind, name |-> name, amount |-> amount]

ParsedInfoRaw(kind, name, amount) == [kind |-> kind, name |-> name, amount |-> amount]

\* name = extract_name(text); amount = extract_amount(text, kind)
ParseOfKind(text, kind) == ParsedOrRaise(kind, extract_name(text), extract_amount(text, kind))

parse_info(text) ==
    IF text = <<>> THEN ParsedInfoRaw("unknown", NoneStr, NoneInt)
    ELSE ParseOfKind(text, detect_kind(text))

----------------------------------------------------------------------------
(* The specification of the parser: a text, made of the snippets of the      *)
(* vocabulary, goes through every function of price_normalizer.py and        *)
(* info_parser.py                                                            *)

MaxSnippets == 3

Vocabulary ==
    {<<23478, 36035>>, <<20385, 26684>>, <<36035, 36024>>, <<22770, 36023>>,    \* 家賃 価格 賃貸 売買
     <<24540, 30456, 35527>>, <<35201, 21839, 21512, 12431, 12379>>, <<35201, 21839, 21512, 12379>>,    \* 応相談 要問合わせ 要問合せ
     <<56, 19975, 20870>>, <<53, 48, 48, 48, 19975, 20870>>, <<49, 20740, 20870>>, <<48, 20740>>, <<56, 48, 44, 48, 48, 48, 20870>>,    \* 8万円 5000万円 1億円 0億 80,000円
     <<10>>, <<29289, 20214, 21517, 58, 12464, 12521, 12531, 12489, 10>>}    \* \n 物件名:グランド\n

Texts == UNION {{Concat(t) : t \in [1..k -> Vocabulary]} : k \in 0..MaxSnippets}

InitParse ==
    /\ pdf_text \in Texts
    /\ p_unspecified = NotCalled
    /\ p_amount_jpy = NotCalled
    /\ p_amounts = NotCalled
    /\ p_kind = NotCalled
    /\ p_extract = NotCalled
    /\ p_info = NotCalled
    /\ NamerIdle /\ TruncIdle /\ FsIdle /\ CollideIdle /\ PureIdle
    /\ RunIdle

CallParse ==
    /\ p_info = NotCalled
    /\ p_unspecified' = check_price_unspecified(pdf_text)
    /\ p_amount_jpy' = parse_amount_jpy(pdf_text)
    /\ p_amounts' = extract_multiple_amounts(pdf_text)
    /\ p_kind' = detect_kind(pdf_text)
    /\ p_extract' = [kind \in Kinds |-> extract_amount(pdf_text, kind)]
    /\ p_info' = parse_info(pdf_text)
    /\ UNCHANGED <<pdf_text, namerVars, truncVars, fsVars, collideVars, pureVars>>
    /\ UNCHANGED runVars

NextParse == CallParse

SpecParse == InitParse /\ [][NextParse]_vars

\* the unspecified-price phrases the specification lists
UnspecifiedPhrases ==
    {<<24540, 30456, 35527>>, <<35201, 21839, 21512, 12379>>, <<35201, 21839, 21512, 12431, 12379>>, <<20385, 26684, 26410, 23450>>, <<35201, 30456, 35527>>, <<21029, 36884, 30456, 35527>>,    \* 応相談 要問合せ 要問合わせ 価格未定 要相談 別途相談
     <<12362, 21839, 12356, 21512, 12431, 12379>>}    \* お問い合わせ
HasUnspecifiedPhrase(s) == \E phrase \in UnspecifiedPhrases : Contains(s, phrase)

Parsed == p_info # NotCalled

\* C6: when the text contains an unspecified-price phrase, parse_amount_jpy
\* returns None whatever numerals the text contains, and
\* extract_multiple_amounts returns exactly {price_unspecified: True}.
C6_UnspecifiedShortCircuits ==
    (Parsed /\ HasUnspecifiedPhrase(pdf_text)) =>
        /\ p_amount_jpy = NoneInt
        /\ p_amounts = UnspecifiedDict

\* C7: when the text contains an unspecified-price phrase, the amount of
\* extract_amount is None for every kind, and so is the amount of parse_info.
C7_UnspecifiedAmountAbsent ==
    (Parsed /\ HasUnspecifiedPhrase(pdf_text)) =>
        /\ \A kind \in Kinds : p_extract[kind] = NoneInt
        /\ p_info.amount = NoneInt
        /\ p_info.kind = p_kind

\* C8: parse_info returns a kind that is one of sell, rent, unknown and an
\* amount that is None or a non-negative int, never a bool.
C8_ParsedInfoWellTyped ==
    Parsed =>
        /\ p_info.kind \in Kinds
        /\ \/ p_info.amount = NoneInt
           \/ (p_info.amount.t = "int" /\ p_info.amount.v >= 0)

\* the score of a side: its keyword score plus 3 for each of its strong
\* patterns that matches
SellScore(s) == KeywordScore(_SELL_HINTS, Lower(s)) + StrongScore(strong_sell_patterns, Lower(s))
RentScore(s) == KeywordScore(_RENT_HINTS, Lower(s)) + StrongScore(strong_rent_patterns, Lower(s))

\* C9: detect_kind returns sell when the sell score is strictly greater than
\* the rent score, rent when the rent score is strictly greater, and unknown on
\* every tie and on the empty text; equal keyword scores without a strong
\* pattern give unknown.
C9_DetectKindDecision ==
    Parsed =>
        /\ pdf_text = <<>> => p_kind = "unknown"
        /\ SellScore(pdf_text) > RentScore(pdf_text) => p_kind = "sell"
        /\ RentScore(pdf_text) > SellScore(pdf_text) => p_kind = "rent"
        /\ SellScore(pdf_text) = RentScore(pdf_text) => p_kind = "unknown"
        /\ ( /\ KeywordScore(_SELL_HINTS, Lower(pdf_text)) = KeywordScore(_RENT_HINTS, Lower(pdf_text))
             /\ StrongScore(strong_sell_patterns, Lower(pdf_text)) = 0
             /\ StrongScore(strong_rent_patterns, Lower(pdf_text)) = 0 ) => p_kind = "unknown"

\* a tie of two scores that both count a strong pattern gave unknown
C9_Witness ==
    /\ Parsed
    /\ SellScore(pdf_text) = RentScore(pdf_text)
    /\ StrongScore(strong_sell_patterns, Lower(pdf_text)) > 0
    /\ StrongScore(strong_rent_patterns, Lower(pdf_text)) > 0
    /\ p_kind = "unknown"

\* the greatest of the rent and price amounts
MaxRole(amounts) ==
    IF "rent" \in DOMAIN amounts /\ "price" \in DOMAIN amounts
    THEN (IF amounts["rent"].v >= amounts["price"].v THEN amounts["rent"] ELSE amounts["price"])
    ELSE IF "rent" \in DOMAIN amounts THEN amounts["rent"]
    ELSE IF "price" \in DOMAIN amounts THEN amounts["price"]
    ELSE NoneInt

\* C10: for kind rent the rent role is returned when present, else the price
\* role; for kind sell the price role when present, else the rent role; for
\* kind unknown parse_amount_jpy of the whole text when that yields an amount,
\* else the maximum of the role amounts, else None.
C10_RoleResolution ==
    Parsed =>
        /\ "rent" \in DOMAIN p_amounts => p_extract["rent"] = p_amounts["rent"]
        /\ ("rent" \notin DOMAIN p_amounts /\ "price" \in DOMAIN p_amounts)
              => p_extract["rent"] = p_amounts["price"]
        /\ "price" \in DOMAIN p_amounts => p_extract["sell"] = p_amounts["price"]
        /\ ("price" \notin DOMAIN p_amounts /\ "rent" \in DOMAIN p_amounts)
              => p_extract["sell"] = p_amounts["rent"]
        /\ p_extract["unknown"] =
              IF p_amount_jpy # NoneInt THEN p_amount_jpy ELSE MaxRole(p_amounts)


----------------------------------------------------------------------------
(* The specification of the amounts: the same functions on texts made of     *)
(* amounts in every unit, well formed and malformed                          *)

MaxAmountSnippets == 2

AmountVocabulary ==
    {<<49, 20740>>, <<49, 46, 53, 20740, 20870>>, <<50, 44, 51, 48, 48, 19975, 20870>>, <<53, 48, 48, 48, 19975, 20870>>, <<44, 19975>>,    \* 1億 1.5億円 2,300万円 5000万円 ,万
     <<56, 48, 44, 48, 48, 48, 20870>>, <<48, 48, 48, 48, 53, 48, 48>>, <<49, 50, 51, 52, 53, 54, 55>>,    \* 80,000円 0000500 1234567
     <<23478, 36035, 56, 19975, 20870>>, <<23478, 36035, 56, 48, 44, 48, 48, 48, 20870>>, <<20385, 26684, 53, 48, 48, 48, 19975, 20870>>, <<20385, 26684, 49, 20740>>,    \* 家賃8万円 家賃80,000円 価格5000万円 価格1億
     <<24540, 30456, 35527>>, <<10>>}    \* 応相談 \n

AmountTexts ==
    UNION {{Concat(t) : t \in [1..k -> AmountVocabulary]} : k \in 0..MaxAmountSnippets}

InitAmount ==
    /\ pdf_text \in AmountTexts
    /\ p_unspecified = NotCalled
    /\ p_amount_jpy = NotCalled
    /\ p_amounts = NotCalled
    /\ p_kind = NotCalled
    /\ p_extract = NotCalled
    /\ p_info = NotCalled
    /\ NamerIdle /\ TruncIdle /\ FsIdle /\ CollideIdle /\ PureIdle
    /\ RunIdle

NextAmount == CallParse

SpecAmount == InitAmount /\ [][NextAmount]_vars

\* a priority list of pattern classes: the pattern, its unit, and the least
\* amount the class accepts
OkuClass == [re |-> _PRICE_PATTERNS[1].re, unit |-> "oku", least |-> 0]
ManClass == [re |-> _PRICE_PATTERNS[2].re, unit |-> "man", least |-> 0]
ManFourClass == [re |-> _PRICE_PATTERNS[3].re, unit |-> "man", least |-> 0]
YenClass == [re |-> _PRICE_PATTERNS[4].re, unit |-> "yen", least |-> 0]
BareClass == [re |-> _PRICE_PATTERNS[5].re, unit |-> "yen", least |-> 0]
BareMillionClass == [re |-> _PRICE_PATTERNS[5].re, unit |-> "yen", least |-> 1000000]

\* the amount a class gives for the numeral n of its first match, None when n
\* is not a number or the amount is below the least amount of the class
ClassAmount(class, n) ==
    IF class.unit = "oku"
    THEN (IF IsFloatLiteral(n) THEN PyInt(OkuOf(n)) ELSE NoneInt)
    ELSE IF ~IsIntLiteral(n) THEN NoneInt
    ELSE IF class.unit = "man" THEN PyInt(TimesOf(NatOf(n), 10000))
    ELSE IF NatOf(n) >= class.least THEN PyInt(NatOf(n))
    ELSE NoneInt

RECURSIVE FirstClassAmount(_, _, _)
RECURSIVE FirstClassStep(_, _, _, _)
RECURSIVE FirstClassNext(_, _, _, _)
\* the amount of the first of classes[c..] that matches in the text and whose
\* first match gives an amount
FirstClassAmount(classes, s, c) ==
    IF c > Len(classes) THEN NoneInt
    ELSE FirstClassStep(classes, s, c, Search(classes[c].re, s))

FirstClassStep(classes, s, c, m) ==
    IF ~m.found THEN FirstClassAmount(classes, s, c + 1)
    ELSE FirstClassNext(classes, s, c,
                        ClassAmount(classes[c], normalize_number_string(Group1(s, m))))

FirstClassNext(classes, s, c, amount) ==
    IF amount.t = "None" THEN FirstClassAmount(classes, s, c + 1) ELSE amount

OkuMatch(s) == Search(OkuClass.re, s)
ManAfter(s, m) == MatchAt(M(ManClass.re, s, m.end, <<>>), m.end)
ManNumeral(s, m) == normalize_number_string(Group1(s, ManAfter(s, m)))
HasCompound(s) ==
    /\ OkuMatch(s).found
    /\ IsFloatLiteral(normalize_number_string(Group1(s, OkuMatch(s))))
    /\ ManAfter(s, OkuMatch(s)).found
    /\ IsIntLiteral(ManNumeral(s, OkuMatch(s)))

\* a + b, Huge above MaxAmount
PlusOf(a, b) == IF a > MaxAmount - b \/ b > MaxAmount THEN Huge ELSE a + b

\* N x 100,000,000 + M x 10,000 for the compound of the text
CompoundSum(s) ==
    PlusOf(OkuOf(normalize_number_string(Group1(s, OkuMatch(s)))),
           TimesOf(NatOf(ManNumeral(s, OkuMatch(s))), 10000))

\* the text has no numeral but the compound
OnlyCompound(s) ==
    \A j \in 1..Len(s) :
        IsDigit(s[j]) => OkuMatch(s).start <= j /\ j < ManAfter(s, OkuMatch(s)).end

\* C12: on a text whose first 億 amount is followed at once by a 万 amount,
\* parse_amount_jpy returns N x 100,000,000 + M x 10,000, and so does
\* parse_info when the kind is sell and the compound is the only numeral of
\* the text.
C12_CompoundSum ==
    (Parsed /\ ~p_unspecified /\ HasCompound(pdf_text)) =>
        /\ p_amount_jpy = PyInt(CompoundSum(pdf_text))
        /\ (p_info.kind = "sell" /\ OnlyCompound(pdf_text))
              => p_info.amount = PyInt(CompoundSum(pdf_text))

\* a rent mention and a price mention: the keyword, an optional colon, and the
\* amount with its unit
RentMentionRe ==
    Cat(<<Alt(<<Lit(<<23478, 36035>>), Lit(<<36035, 26009>>), Lit(<<26376, 38989>>)>>),    \* 家賃 賃料 月額
          Opt(ColonClass), Star(AnySpace), Group(AmountWithUnitRe)>>)
PriceMentionRe ==
    Cat(<<Alt(<<Lit(<<36009, 22770, 20385, 26684>>), Lit(<<20385, 26684>>), Lit(<<22770, 20986>>)>>),    \* 販売価格 価格 売出
          Opt(ColonClass), Star(AnySpace), Group(AmountWithUnitRe)>>)

\* the amount written at the first mention of the text, None without a mention
MentionAmountOf(s, m) == IF m.found THEN parse_amount_jpy(Group1(s, m)) ELSE NoneInt
MentionAmount(mention, s) == MentionAmountOf(s, Search(mention, s))

\* C13: for a text that mentions both a rent and a price, each with an amount,
\* extract_multiple_amounts holds in the rent role the amount written at the
\* rent mention and in the price role the amount written at the price mention.
C13_RoleIndependence ==
    (/\ Parsed
     /\ ~p_unspecified
     /\ MentionAmount(RentMentionRe, pdf_text) # NoneInt
     /\ MentionAmount(PriceMentionRe, pdf_text) # NoneInt) =>
        p_amounts = AmountsDict(MentionAmount(RentMentionRe, pdf_text),
                                MentionAmount(PriceMentionRe, pdf_text))

----------------------------------------------------------------------------
(* The specification of normalize_number_string: a string over digits of     *)
(* both widths, the characters the function removes and a letter is          *)
(* normalized, and the result is normalized again                            *)

MaxNumberLen == 4

NumberAlphabet == {65297, 65305, 57, 44, 65292, 165, 65509, 32, 12288, 97}    \* [１９9,，¥￥ 　a]

InitNormalize ==
    /\ n_s \in StrSeqs(NumberAlphabet, MaxNumberLen)
    /\ n_result = NotCalled
    /\ n_twice = NotCalled
    /\ CleanIdle /\ FormatIdle
    /\ NamerIdle /\ TruncIdle /\ FsIdle /\ CollideIdle /\ ParseIdle
    /\ RunIdle

CallNormalize ==
    /\ n_result = NotCalled
    /\ n_result' = PyStr(normalize_number_string(n_s))
    /\ UNCHANGED <<n_s, n_twice, c_result, f_amount, f_sell, f_rent,
                   namerVars, truncVars, fsVars, collideVars, parseVars>>
    /\ UNCHANGED runVars

CallNormalizeAgain ==
    /\ n_result # NotCalled
    /\ n_twice = NotCalled
    /\ n_twice' = PyStr(normalize_number_string(n_result.v))
    /\ UNCHANGED <<n_s, n_result, c_result, f_amount, f_sell, f_rent,
                   namerVars, truncVars, fsVars, collideVars, parseVars>>
    /\ UNCHANGED runVars

NextNormalize == CallNormalize \/ CallNormalizeAgain

SpecNormalize == InitNormalize /\ [][NextNormalize]_vars

\* C14: normalize_number_string is idempotent, its result has no full-width
\* digit, no comma of either width, no ¥ or ￥ and no space of either width,
\* and the empty string gives the empty string.
C14_NormalizeIdempotent ==
    /\ n_result \notin {Idle, NotCalled} =>
          /\ \A j \in 1..Len(n_result.v) :
                n_result.v[j] \notin FullWidthDigits \cup {44, 65292, 165, 65509, 32, 12288}    \* [,，¥￥ 　]
          /\ n_s = <<>> => n_result = PyStr(<<>>)
    /\ n_twice \notin {Idle, NotCalled} => n_twice = n_result

\* a string with a full-width digit and removed characters was normalized
\* twice
C14_Witness ==
    /\ n_twice \notin {Idle, NotCalled}
    /\ \E j \in 1..Len(n_s) : n_s[j] \in FullWidthDigits
    /\ \E j \in 1..Len(n_s) : n_s[j] \in Removed
    /\ Len(n_result.v) > 0

----------------------------------------------------------------------------
(* The specification of the price formats: an amount, negative, zero or      *)
(* positive, is formatted as a sale price and as a rent                      *)

NegativeSteps == 10
PositiveSteps == 40
FormatStep == 2500

FormatAmounts ==
    {k * FormatStep : k \in (0 - NegativeSteps)..PositiveSteps}
    \cup {-1, 1, 99990000, 100000000, 120000000}

InitFormat ==
    /\ f_amount \in {PyInt(yen) : yen \in FormatAmounts}
    /\ f_sell = NotCalled
    /\ f_rent = NotCalled
    /\ CleanIdle /\ NormalizeIdle
    /\ NamerIdle /\ TruncIdle /\ FsIdle /\ CollideIdle /\ ParseIdle
    /\ RunIdle

CallFormatSell ==
    /\ f_sell = NotCalled
    /\ f_sell' = PyStr(format_price_sell(f_amount.v))
    /\ UNCHANGED <<f_amount, f_rent, c_result, n_s, n_result, n_twice,
                   namerVars, truncVars, fsVars, collideVars, parseVars>>
    /\ UNCHANGED runVars

CallFormatRent ==
    /\ f_rent = NotCalled
    /\ f_rent' = PyStr(format_price_rent(f_amount.v))
    /\ UNCHANGED <<f_amount, f_sell, c_result, n_s, n_result, n_twice,
                   namerVars, truncVars, fsVars, collideVars, parseVars>>
    /\ UNCHANGED runVars

NextFormat == CallFormatSell \/ CallFormatRent

SpecFormat == InitFormat /\ [][NextFormat]_vars

\* C20: format_price_sell and format_price_rent return 0円 for the amount 0
\* and for every negative amount.
C20_ZeroAndNegative ==
    (f_amount.t = "int" /\ f_amount.v <= 0) =>
        /\ f_sell \notin {Idle, NotCalled} => f_sell = PyStr(ZeroEn)
        /\ f_rent \notin {Idle, NotCalled} => f_rent = PyStr(ZeroEn)

----------------------------------------------------------------------------
(* The specification of the names: a text made of name fields, names, noise  *)
(* and separators goes through clean_name and through parse_info             *)

MaxNameSnippets == 3

NameVocabulary ==
    {<<29289, 20214, 21517, 65306>>, <<24314, 29289, 21517, 58>>, <<12464, 12521, 12531, 12489, 12479, 12527, 12540, 28171, 35895>>, <<12513, 12478, 12531, 38738, 23665, 40, 26032, 30528, 41>>,    \* 物件名： 建物名: グランドタワー渋谷 メゾン青山(新着)
     <<49, 50, 48, 51, 21495, 23460>>, <<49, 50>>, <<10>>, <<32, 12288>>, <<65, 47, 66, 58, 67>>, <<78, 69, 87>>,    \* 1203号室 12 \n  　 A/B:C NEW
     <<12510, 12531, 12471, 12519, 12531, 21517, 65306, 12497, 12540, 12463, 10>>, <<12450, 12497, 12540, 12488, 21517, 58, 49, 50, 10>>}    \* マンション名：パーク\n アパート名:12\n

NameTexts ==
    UNION {{Concat(t) : t \in [1..k -> NameVocabulary]} : k \in 0..MaxNameSnippets}

InitName ==
    /\ pdf_text \in NameTexts
    /\ p_info = NotCalled
    /\ c_result = NotCalled
    /\ p_unspecified = Idle /\ p_amount_jpy = Idle /\ p_amounts = Idle
    /\ p_kind = Idle /\ p_extract = Idle
    /\ NormalizeIdle /\ FormatIdle
    /\ NamerIdle /\ TruncIdle /\ FsIdle /\ CollideIdle
    /\ RunIdle

CallCleanName ==
    /\ c_result = NotCalled
    /\ c_result' = clean_name(pdf_text)
    /\ UNCHANGED <<n_s, n_result, n_twice, f_amount, f_sell, f_rent,
                   namerVars, truncVars, fsVars, collideVars, parseVars>>
    /\ UNCHANGED runVars

CallParseInfo ==
    /\ p_info = NotCalled
    /\ p_info' = parse_info(pdf_text)
    /\ UNCHANGED <<pdf_text, p_unspecified, p_amount_jpy, p_amounts, p_kind, p_extract,
                   namerVars, truncVars, fsVars, collideVars, pureVars>>
    /\ UNCHANGED runVars

NextName == CallCleanName \/ CallParseInfo

SpecName == InitName /\ [][NextName]_vars

\* a name as clean_name promises it: absent, or at least 2 characters, not
\* only digits, without a forbidden character and without leading, trailing
\* or repeated whitespace
IsCleanName(name) ==
    \/ name = NoneStr
    \/ /\ name.t = "str"
       /\ Len(name.v) >= 2
       /\ \E j \in 1..Len(name.v) : ~IsDigit(name.v[j])
       /\ \A j \in 1..Len(name.v) : name.v[j] \notin _FORBIDDEN
       /\ ~IsSpace(name.v[1])
       /\ ~IsSpace(name.v[Len(name.v)])
       /\ \A j \in 1..(Len(name.v) - 1) : ~(IsSpace(name.v[j]) /\ IsSpace(name.v[j + 1]))

\* C15: clean_name returns absent or a string of at least 2 characters, not
\* all digits, with no forbidden filename character and no leading, trailing
\* or repeated whitespace; an empty or whitespace-only input gives absent; a
\* name returned by extract_name satisfies the same conditions.
C15_CleanNameShape ==
    /\ c_result \notin {Idle, NotCalled} =>
          /\ IsCleanName(c_result)
          /\ (\A j \in 1..Len(pdf_text) : IsSpace(pdf_text[j])) => c_result = NoneStr
    /\ Parsed => IsCleanName(p_info.name)

\* a raw name with forbidden characters and repeated whitespace was cleaned to
\* a name, and extract_name returned a name
C15_Witness ==
    /\ c_result \notin {Idle, NotCalled, NoneStr}
    /\ \E j \in 1..Len(pdf_text) : pdf_text[j] \in _FORBIDDEN
    /\ \E j \in 1..(Len(pdf_text) - 1) : IsSpace(pdf_text[j]) /\ IsSpace(pdf_text[j + 1])
    /\ Parsed
    /\ p_info.name # NoneStr

\* the name of each explicit field, in the order 物件名, 建物名, マンション名,
\* アパート名: what the first occurrence of the field captures, cleaned
FieldNames(text) == [p \in 1..Len(_NAME_PATTERNS) |-> FieldName(text, p)]

\* C16: extract_name returns the name of the first explicit field, in the
\* order 物件名, 建物名, マンション名, アパート名, whose capture cleans to a
\* non-empty name, whatever the other lines of the text are; the best
\* candidate line is returned only when no explicit field gives a name.
C16_FieldPriority ==
    Parsed =>
        /\ \A p \in 1..Len(_NAME_PATTERNS) :
              (/\ TruthyStr(FieldNames(pdf_text)[p])
               /\ \A q \in 1..(p - 1) : ~TruthyStr(FieldNames(pdf_text)[q]))
                 => p_info.name = FieldNames(pdf_text)[p]
        /\ (\A p \in 1..Len(_NAME_PATTERNS) : ~TruthyStr(FieldNames(pdf_text)[p]))
              => p_info.name = NameOfCandidates(extract_name_candidates(pdf_text))

\* a later explicit field gave the name, an earlier field of the text having
\* cleaned to nothing, and the best candidate line was another name
C16_Witness ==
    /\ Parsed
    /\ \E p \in 2..Len(_NAME_PATTERNS) :
          /\ TruthyStr(FieldNames(pdf_text)[p])
          /\ p_info.name = FieldNames(pdf_text)[p]
          /\ \E q \in 1..Len(_NAME_PATTERNS) :
                /\ Search(_NAME_PATTERNS[q], pdf_text).found
                /\ ~TruthyStr(FieldNames(pdf_text)[q])
    /\ NameOfCandidates(extract_name_candidates(pdf_text)) # p_info.name

----------------------------------------------------------------------------
(* The specification of the core as a whole: every function of the core is   *)
(* applied to a text, among them the empty text and a text with a numeral    *)
(* too long for a float                                                      *)

MaxCoreSnippets == 2
LongNumeralLen == 306

CoreVocabulary ==
    {<<23478, 36035>>, <<56, 19975, 20870>>, <<49, 20740>>, <<24540, 30456, 35527>>, <<29289, 20214, 21517, 65306>>, <<12464, 12521, 12531, 12489, 12479, 12527, 12540, 28171, 35895>>,    \* 家賃 8万円 1億 応相談 物件名： グランドタワー渋谷
     <<49, 50>>, <<10>>}    \* 12 \n

\* 1円 and a numeral of LongNumeralLen digits before 万円
LongNumeralText == <<49, 20870>> \o [j \in 1..LongNumeralLen |-> 57] \o <<19975, 20870>>    \* 1円 万円

CoreTexts ==
    {LongNumeralText}
    \cup UNION {{Concat(t) : t \in [1..k -> CoreVocabulary]} : k \in 0..MaxCoreSnippets}

InitCore ==
    /\ pdf_text \in CoreTexts
    /\ n_s = pdf_text
    /\ p_unspecified = NotCalled
    /\ p_amount_jpy = NotCalled
    /\ p_amounts = NotCalled
    /\ p_kind = NotCalled
    /\ p_extract = NotCalled
    /\ p_info = NotCalled
    /\ c_result = NotCalled
    /\ n_result = NotCalled
    /\ n_twice = Idle
    /\ FormatIdle
    /\ NamerIdle /\ TruncIdle /\ FsIdle /\ CollideIdle
    /\ RunIdle

\* every function of the core on the text
CallCore ==
    /\ p_info = NotCalled
    /\ n_result' = PyStr(normalize_number_string(n_s))
    /\ p_unspecified' = check_price_unspecified(pdf_text)
    /\ p_amount_jpy' = parse_amount_jpy(pdf_text)
    /\ p_amounts' = extract_multiple_amounts(pdf_text)
    /\ p_kind' = detect_kind(pdf_text)
    /\ c_result' = clean_name(pdf_text)
    /\ p_extract' = [kind \in Kinds |-> extract_amount(pdf_text, kind)]
    /\ p_info' = parse_info(pdf_text)
    /\ UNCHANGED <<pdf_text, n_s, n_twice, f_amount, f_sell, f_rent,
                   namerVars, truncVars, fsVars, collideVars>>
    /\ UNCHANGED runVars

NextCore == CallCore

SpecCore == InitCore /\ [][NextCore]_vars

\* C17: no function of the core raises on a string, and on the empty string
\* each returns its no-result value: '', false, absent, {}, unknown, absent,
\* absent, absent and (unknown, absent, absent).
C17_CoreTotal ==
    Parsed =>
        /\ ~IsRaise(p_amounts)
        /\ \A kind \in Kinds : ~IsRaise(p_extract[kind])
        /\ ~IsRaise(p_info)
        /\ pdf_text = <<>> =>
              /\ n_result = PyStr(<<>>)
              /\ p_unspecified = FALSE
              /\ p_amount_jpy = NoneInt
              /\ p_amounts = EmptyDict
              /\ p_kind = "unknown"
              /\ c_result = NoneStr
              /\ \A kind \in Kinds : p_extract[kind] = NoneInt
              /\ p_info = ParsedInfoRaw("unknown", NoneStr, NoneInt)

----------------------------------------------------------------------------
(* FileManager: strict mode and the operation log *)

\* an operation that failed
IsFailure(op) == ~op.success

\* FileManager.get_failed_operations()
get_failed_operations == SelectSeq(operation_log, IsFailure)

\* C18: a call of rename_file or copy_file that fails raises when strict_mode
\* is set, the original file missing included, and returns a result with
\* success false, without raising, when strict_mode is not set.
C18_StrictModeRaises ==
    (result \notin {Idle, NotCalled} /\ ~result.success) => (raised <=> strict_mode)

\* C19: every call of rename_file or copy_file appends one result to
\* operation_log: the length of the log is the number of calls, the result of
\* the last call is its last entry, and a failed call is among
\* get_failed_operations.
C19_OneLogEntryPerCall ==
    result \notin {Idle, NotCalled} =>
        /\ Len(operation_log) = calls
        /\ operation_log[Len(operation_log)] = result
        /\ ~result.success =>
              get_failed_operations[Len(get_failed_operations)] = result

----------------------------------------------------------------------------
(* FileManager: what a call changes in the file system *)

\* the file at path in fs2 is the file that was at path in fs1
SameFile(fs1, fs2, d, name) ==
    /\ FileExists(fs1, d, name) <=> FileExists(fs2, d, name)
    /\ Content(fs1, d, name) = Content(fs2, d, name)

\* every file of directory d other than the files named in except is in fs2
\* what it was in fs1
OthersUnchanged(fs1, fs2, d, except) ==
    /\ fs1[d].filler = fs2[d].filler
    /\ \A name \in (DOMAIN fs1[d].files \cup DOMAIN fs2[d].files) \ except :
          SameFile(fs1, fs2, d, name)

----------------------------------------------------------------------------
(* generate_filename: kind unknown with an amount, and the amount 0 *)

\* a digit in the string
HasDigit(s) == \E j \in 1..Len(s) : IsDigitAscii(s[j])

\* C30: for kind unknown with a name and an amount, the stem is
\* 【その他】{name}_未確定 and the amount does not appear in the filename (no
\* name and no path of the model holds a digit, so a digit in the filename
\* could only come from the amount); in every branch an amount of 0 gives the
\* filename an absent amount gives.
C30_UnknownIgnoresAmount ==
    filename # NotCalled =>
        /\ (info.kind = "unknown" /\ TruthyStr(info.name) /\ TruthyInt(info.amount)) =>
              /\ filename.v = _truncate_filename(
                     sanitize_filename(TagOther \o safe_name(info.name) \o LblUndecided)
                         \o PathSuffix(original_path), MaxFilenameBytes)
              /\ ~HasDigit(filename.v)
        /\ info.amount = PyInt(0) =>
              filename.v = generate_filename([info EXCEPT !.amount = NoneInt], original_path)

\* kind unknown, a name that the sanitizer changes and an amount of 85,000,000
\* yen: the filename is that of the undecided template
C30_Witness ==
    /\ filename # NotCalled
    /\ info.kind = "unknown"
    /\ info.name = PyStr(NameDirty)
    /\ info.amount = PyInt(85000000)
    /\ original_path = PathColon
    /\ filename.v = TagOther \o safe_name(info.name) \o LblUndecided \o PathSuffix(PathColon)

\* a sale with a name and the amount 0: named as a sale without a price
C30_WitnessZero ==
    /\ filename # NotCalled
    /\ info.kind = "sell"
    /\ info.name = PyStr(NameGrand)
    /\ info.amount = PyInt(0)
    /\ filename.v = TagSell \o NameGrand \o LblPriceMissing \o PathSuffix(original_path)

----------------------------------------------------------------------------
(* The specification of a rename repeated on its own result: src holds t.pdf *)
(* and t-1.pdf .. t-k.pdf; the file is renamed, and the file the first call  *)
(* left is renamed again                                                     *)

SelfFillers == {0, 1, 2, MaxTries - 1, MaxTries}

InitSelf ==
    /\ \E k \in SelfFillers, other \in BOOLEAN :
          dirs = [d \in DirNames |->
                IF d = "src"
                THEN [exists |-> TRUE,
                      files |-> [n \in {NameT} \cup (IF other THEN {NameA} ELSE {}) |->
                                    IF n = NameT THEN 1 ELSE 2],
                      filler |-> k]
                ELSE [exists |-> FALSE, files |-> [n \in {} |-> 0], filler |-> 0]]
    /\ platform \in {"posix", "nt"}
    /\ now = ClockStart
    /\ strict_mode \in BOOLEAN
    /\ operation_log = <<>>
    /\ result = NotCalled
    /\ raised = FALSE
    /\ calls = 0
    /\ NamerIdle /\ TruncIdle /\ CollideIdle /\ ParseIdle /\ PureIdle
    /\ RunIdle

\* the path the file is at: where the last successful rename left it
CurrentPath ==
    IF result = NotCalled THEN [dir |-> "src", name |-> NameT]
    ELSE IF result.success THEN result.final_path
    ELSE result.original_path

\* rename_file(path, new_filename) with new_filename "t.pdf", "a.pdf" or the
\* file's own current name
CallRenameSelf ==
    /\ \E new_filename \in {NameT, NameA, CurrentPath.name}, fault \in BOOLEAN :
          rename_file(CurrentPath, new_filename, fault)
    /\ UNCHANGED <<namerVars, truncVars, collideVars, parseVars, pureVars>>
    /\ UNCHANGED runVars

NextSelf == CallRenameSelf

SpecSelf == InitSelf /\ [][NextSelf]_vars

\* the numbers in 1..999 whose numbered name is free in the directory of path
FreeNumbersOf(fname, path) ==
    {i \in 1..MaxTries : ~FileExists(dirs, path.dir, NumberedName(fname, i))}

\* the name a file that is renamed to its own name ends with
OwnNameNumbered(path) ==
    IF FreeNumbersOf(path.name, path) # {}
    THEN NumberedName(path.name, SetMin(FreeNumbersOf(path.name, path)))
    ELSE NumberedName(path.name, now)

\* C29: a successful rename_file whose new_filename is the file's current name
\* does not leave the file in place: the file goes to {stem}-{i}{suffix} for
\* the first free i (to the timestamp name when none of 1..999 is free) and
\* its old path is gone; and a successful rename repeated on its own result
\* with the same new_filename changes the path again.
C29_OwnNameCollides ==
    [][(calls' = calls + 1 /\ result'.success) =>
          /\ result'.target_filename = result'.original_path.name =>
                /\ result'.final_path # result'.original_path
                /\ result'.final_path.dir = result'.original_path.dir
                /\ result'.final_path.name = OwnNameNumbered(result'.original_path)
                /\ ~FileExists(dirs', result'.original_path.dir, result'.original_path.name)
                /\ FileExists(dirs', result'.final_path.dir, result'.final_path.name)
          /\ (/\ result # NotCalled
              /\ result.success
              /\ result'.original_path = result.final_path
              /\ result'.target_filename = result.target_filename) =>
                result'.final_path # result.final_path]_vars

\* t.pdf was renamed to "t.pdf" beside t-1.pdf and t-2.pdf and became t-3.pdf;
\* the rename to "t.pdf" was repeated on t-3.pdf, which went back to t.pdf
C29_Witness ==
    /\ calls = 2
    /\ Len(operation_log) = 2
    /\ operation_log[1].success /\ operation_log[2].success
    /\ operation_log[1].original_path.name = NameT
    /\ operation_log[1].target_filename = NameT
    /\ operation_log[1].final_path.name = NumberedName(NameT, 3)
    /\ operation_log[2].original_path = operation_log[1].final_path
    /\ operation_log[2].target_filename = NameT
    /\ operation_log[2].final_path.name = NameT

----------------------------------------------------------------------------
(* The specification of two concurrent callers: caller 1 renames or copies   *)
(* a.pdf, caller 2 renames or copies b.pdf, both with the desired name       *)
(* "t.pdf" and the same target directory.  A call is two steps: the checks   *)
(* up to the collision resolution (file_manager.py:40-52, 98-112), and the   *)
(* file operation with the bookkeeping that follows it (55-65, 115-125).     *)

Callers == {1, 2}

\* the file of each caller; its content is the caller's number
OriginalOf(c) == [dir |-> "src", name |-> IF c = 1 THEN NameA ELSE NameB]

\* the callers rename when the target directory is the directory of the
\* originals and copy otherwise
OperationType == IF desired_dir = "src" THEN "rename" ELSE "copy"

\* the target directory at the start, as <<it exists, it holds t.pdf, it holds
\* t-1.pdf>>
RaceScenarios ==
    {<<FALSE, FALSE, 0>>, <<TRUE, FALSE, 0>>, <<TRUE, TRUE, 0>>, <<TRUE, TRUE, 1>>}

InitRace ==
    /\ desired = NameT
    /\ desired_dir \in DirNames
    /\ \E s \in RaceScenarios :
          /\ (desired_dir = "src" => s[1])
          /\ dirs = [d \in DirNames |->
                [exists |-> IF d = desired_dir THEN s[1] ELSE d = "src",
                 files |-> [n \in (IF d = "src" THEN {NameA, NameB} ELSE {})
                                    \cup (IF d = desired_dir /\ s[2] THEN {NameT} ELSE {}) |->
                               IF n = NameA THEN 1 ELSE IF n = NameB THEN 2 ELSE 0],
                 filler |-> IF d = desired_dir THEN s[3] ELSE 0]]
    /\ platform \in {"posix", "nt"}
    /\ now = ClockStart
    /\ strict_mode \in BOOLEAN
    /\ operation_log = <<>>
    /\ result = NotCalled
    /\ raised = FALSE
    /\ calls = 0
    /\ pc = [c \in Callers |-> "start"]
    /\ chosen = [c \in Callers |-> NotCalled]
    /\ outcome = [c \in Callers |-> NotCalled]
    /\ namer_choice = Idle /\ manager_choice = Idle
    /\ NamerIdle /\ TruncIdle /\ ParseIdle /\ PureIdle /\ TsvIdle /\ RollbackIdle /\ ApplyIdle

\* the caller returns r
Returns(c, r) ==
    /\ pc' = [pc EXCEPT ![c] = "done"]
    /\ outcome' = [outcome EXCEPT ![c] = r]

\* lines 40-52 of rename_file, 98-112 of copy_file: the original is looked
\* up, output_dir is made, the collision-free name is resolved
ResolveStep(c) ==
    /\ pc[c] = "start"
    /\ IF ~FileExists(dirs, OriginalOf(c).dir, OriginalOf(c).name)
       THEN /\ Returns(c, FileOperationResult(OriginalOf(c), desired, NoPath, FALSE,
                              "Original file does not exist", OperationType))
            /\ UNCHANGED <<dirs, chosen>>
       ELSE \E made \in {IF OperationType = "copy" THEN MkDir(dirs, desired_dir) ELSE dirs} :
               /\ dirs' = made
               /\ chosen' = [chosen EXCEPT ![c] =
                                _get_collision_free_name(desired, desired_dir, made, now)]
               /\ pc' = [pc EXCEPT ![c] = "resolved"]
               /\ UNCHANGED outcome
    /\ UNCHANGED <<platform, now, strict_mode, operation_log, result, raised, calls>>

\* lines 55-83 of rename_file, 115-143 of copy_file: os.rename or shutil.copy2
\* on the resolved name, then the result and the log
PerformStep(c) ==
    /\ pc[c] = "resolved"
    /\ calls' = calls + 1
    /\ \E target_path \in {[dir |-> desired_dir, name |-> chosen[c]]} :
          IF /\ OperationType = "rename"
             /\ platform = "nt"
             /\ FileExists(dirs, target_path.dir, target_path.name)
          THEN /\ Failed(OriginalOf(c), desired, "FileExistsError", OperationType)
               /\ Returns(c, FileOperationResult(OriginalOf(c), desired, NoPath, FALSE,
                                 "FileExistsError", OperationType))
               /\ UNCHANGED dirs
          ELSE LET r == FileOperationResult(OriginalOf(c), desired, target_path, TRUE,
                            NoMessage, OperationType)
               IN /\ dirs' = WriteFile(dirs, OriginalOf(c), target_path, OperationType = "rename")
                  /\ result' = r
                  /\ operation_log' = Append(operation_log, r)
                  /\ raised' = FALSE
                  /\ Returns(c, r)
    /\ UNCHANGED <<platform, now, strict_mode, chosen>>

Resolve ==
    /\ \E c \in Callers : ResolveStep(c)
    /\ UNCHANGED <<desired, desired_dir, namer_choice, manager_choice>>
    /\ UNCHANGED <<namerVars, truncVars, parseVars, pureVars, tsvVars, rollbackVars, applyVars>>

Perform ==
    /\ \E c \in Callers : PerformStep(c)
    /\ UNCHANGED <<desired, desired_dir, namer_choice, manager_choice>>
    /\ UNCHANGED <<namerVars, truncVars, parseVars, pureVars, tsvVars, rollbackVars, applyVars>>

NextRace == Resolve \/ Perform

SpecRace == InitRace /\ [][NextRace]_vars

\* the other caller
Other(c) == 3 - c

\* the contents of the files of directory d
ContentsOf(fs, d) == {fs[d].files[n] : n \in DOMAIN fs[d].files}

\* C22: collision resolution and the file operation are two steps, and the
\* other caller can act between them.  Resolution never picks a name that
\* exists, so when a caller's operation succeeds on a name that exists by
\* then, both callers had resolved that same name before either operated, the
\* other caller wrote the file in between, and the operation replaces it: the
\* final path holds the later caller's file and the earlier caller's file is
\* no longer in the target directory, although both results report success
\* with the same final path.
C22_TimeOfCheckToTimeOfUse ==
    [][\A c \in Callers :
          (/\ pc[c] = "resolved"
           /\ pc'[c] = "done"
           /\ outcome'[c].success
           /\ FileExists(dirs, desired_dir, chosen[c])) =>
              /\ pc[Other(c)] = "done"
              /\ outcome[Other(c)].success
              /\ chosen[Other(c)] = chosen[c]
              /\ outcome[Other(c)].final_path = outcome'[c].final_path
              /\ Content(dirs, desired_dir, chosen[c]) = Other(c)
              /\ Content(dirs', desired_dir, chosen[c]) = c
              /\ Other(c) \notin ContentsOf(dirs', desired_dir)]_vars

\* both callers resolved the same name, caller 1 wrote it and caller 2
\* replaced it: two successes with one final path, and the file of caller 1
\* is not in the target directory
C22_Witness ==
    /\ pc = [c \in Callers |-> "done"]
    /\ outcome[1].success /\ outcome[2].success
    /\ chosen[1] = chosen[2]
    /\ outcome[1].final_path = outcome[2].final_path
    /\ operation_log = <<outcome[1], outcome[2]>>
    /\ Content(dirs, desired_dir, chosen[2]) = 2
    /\ 1 \notin ContentsOf(dirs, desired_dir)

----------------------------------------------------------------------------
(* tsv_logger.TSVLogger.write_error_tsv *)

(* An error is a dict: a function from some of its keys to strings.  The     *)
(* file at output_path is NoFile or File(rows), rows being the sequence of    *)
(* the rows csv.writer wrote to it and a row the sequence of its fields.     *)

NoFile == [t |-> "NoFile", v |-> <<>>]
File(rows) == [t |-> "file", v |-> rows]

\* datetime.now().isoformat()
IsoNow == "2023-11-14T22:13:20"

ErrorHeaders == <<"original_path", "error_type", "error_message", "timestamp">>

\* a Python bool
PyBool(b) == [t |-> "bool", v |-> IF b THEN 1 ELSE 0]

\* dict.get(key, default)
Get(d, key, default) == IF key \in DOMAIN d THEN d[key] ELSE default

\* the row of one error: lines 87-92
ErrorRow(error) ==
    <<Get(error, "original_path", ""), Get(error, "error_type", ""),
      Get(error, "error_message", ""), Get(error, "timestamp", IsoNow)>>

ErrorRows(error_dicts) == [j \in 1..Len(error_dicts) |-> ErrorRow(error_dicts[j])]

\* the mutant: the file is opened for writing whether it exists or not
OpenModeWrite(append, file) == "w"

\* line 76: mode = 'a' if append and output_path.exists() else 'w'
OpenMode(append, file) == IF append /\ file # NoFile THEN "a" ELSE "w"

\* the rows of the file after the with block: lines 79-93
WrittenRows(error_dicts, append, file) ==
    File((IF OpenMode(append, file) = "w" THEN <<ErrorHeaders>> ELSE file.v) \o ErrorRows(error_dicts))

\* write_error_tsv(errors, output_path, append) with errors = error_dicts; fault: output_path.open raises
\* OSError and the except branch returns False
write_error_tsv(error_dicts, append, fault) ==
    /\ error_tsv' = IF fault THEN error_tsv ELSE WrittenRows(error_dicts, append, error_tsv)
    /\ error_written' = PyBool(~fault)
    /\ error_calls' = Append(error_calls,
                             [errors |-> error_dicts, append |-> append, written |-> ~fault])

----------------------------------------------------------------------------
(* The specification of the error file: calls of write_error_tsv on one path *)
(* that does not exist at the start                                          *)

MaxErrorCalls == 3

ErrorFull ==
    [k \in {"original_path", "error_type", "error_message", "timestamp"} |->
        IF k = "original_path" THEN "/test/error1.pdf"
        ELSE IF k = "error_type" THEN "PDF_PROCESSING_ERROR"
        ELSE IF k = "error_message" THEN "Cannot read"
        ELSE "2023-11-14T22:13:19"]
ErrorNoStamp ==
    [k \in {"original_path", "error_type", "error_message"} |->
        IF k = "original_path" THEN "/test/error2.pdf"
        ELSE IF k = "error_type" THEN "TYPE2" ELSE "msg2"]
ErrorBare == [k \in {"original_path"} |-> "/test/error3.pdf"]

ErrorLists ==
    {<<>>, <<ErrorFull>>, <<ErrorNoStamp>>, <<ErrorBare>>, <<ErrorFull, ErrorNoStamp>>,
     <<ErrorNoStamp, ErrorFull>>}

InitErrorTsv ==
    /\ error_tsv = NoFile
    /\ error_calls = <<>>
    /\ error_written = NotCalled
    /\ NamerIdle /\ TruncIdle /\ FsIdle /\ CollideIdle /\ ParseIdle /\ PureIdle /\ RaceIdle /\ RollbackIdle /\ ApplyIdle

CallWriteErrorTsv ==
    /\ Len(error_calls) < MaxErrorCalls
    /\ \E error_dicts \in ErrorLists, append \in BOOLEAN, fault \in BOOLEAN :
          write_error_tsv(error_dicts, append, fault)
    /\ UNCHANGED <<namerVars, truncVars, fsVars, collideVars, parseVars, pureVars, raceVars, rollbackVars, applyVars>>

NextErrorTsv == CallWriteErrorTsv

SpecErrorTsv == InitErrorTsv /\ [][NextErrorTsv]_vars

\* the calls that wrote
WrittenCalls == SelectSeq(error_calls, LAMBDA call : call.written)

\* the index of the last call of calls made with append=False, 1 when there is
\* none: the call the content of the file starts with
FreshStart(calls_made) ==
    LET fresh == {j \in 1..Len(calls_made) : ~calls_made[j].append}
    IN IF fresh = {} THEN 1 ELSE SetMax(fresh)

RECURSIVE RowsFrom(_, _)
\* the error rows of the calls from call j on, in call order
RowsFrom(calls_made, j) ==
    IF j > Len(calls_made) THEN <<>>
    ELSE ErrorRows(calls_made[j].errors) \o RowsFrom(calls_made, j + 1)

\* C25: once a call has written, the file holds one header row, as its first
\* row, followed by the error rows of every call since the last call made with
\* append=False (of every call, when all were made with append=True), in call
\* order, and no other header row.
C25_OneHeaderThenRows ==
    error_written \notin {Idle, NotCalled} =>
        IF WrittenCalls = <<>> THEN error_tsv = NoFile
        ELSE /\ error_tsv.t = "file"
             /\ error_tsv.v[1] = ErrorHeaders
             /\ SubSeq(error_tsv.v, 2, Len(error_tsv.v)) =
                   RowsFrom(WrittenCalls, FreshStart(WrittenCalls))
             /\ \A j \in 2..Len(error_tsv.v) : error_tsv.v[j] # ErrorHeaders

\* three appending calls on a missing file: one header and the rows of the
\* three calls in call order
C25_Witness ==
    /\ error_written \notin {Idle, NotCalled}
    /\ Len(error_calls) = 3
    /\ \A j \in 1..3 : error_calls[j].append /\ error_calls[j].written
    /\ error_calls[1].errors = <<ErrorNoStamp>>
    /\ error_calls[2].errors = <<ErrorFull, ErrorNoStamp>>
    /\ error_calls[3].errors = <<ErrorBare>>
    /\ error_tsv = File(<<ErrorHeaders, ErrorRow(ErrorNoStamp), ErrorRow(ErrorFull),
                          ErrorRow(ErrorNoStamp), ErrorRow(ErrorBare)>>)

----------------------------------------------------------------------------
(* scripts/rollback_from_tsv.py *)

(* In a TSV a path is a str.  str(path) of a path [dir, name] is             *)
(* "/" + dir + "/" + name, and Path(str) splits the str at its last "/".     *)

\* the name of a directory as a str
DirStr(d) == IF d = "src" THEN <<115, 114, 99>> ELSE <<111, 117, 116>>    \* src out

\* str(path)
PathStr(path) == <<47>> \o DirStr(path.dir) \o <<47>> \o path.name

\* Path(s).parent and Path(s).name, as strs
ParentOf(s) == SubSeq(s, 1, RFind(s, 47) - 1)
NameOf(s) == SubSeq(s, RFind(s, 47) + 1, Len(s))

\* Path(s)
PathOf(s) ==
    [dir |-> IF ParentOf(s) = <<47>> \o DirStr("src") THEN "src" ELSE "out",
     name |-> NameOf(s)]

\* RollbackEntry(old_path, new_path, ...)
RollbackEntry(old_path, new_path) == [old_path |-> old_path, new_path |-> new_path]

\* Path(s).exists()
Exists(fs, s) == FileExists(fs, PathOf(s).dir, PathOf(s).name)

\* the mutant: old_path is not looked at
DetermineWithoutCollision(entry, fs) ==
    IF ~Exists(fs, entry.new_path) THEN "skip_not_found"
    ELSE IF ParentOf(entry.old_path) = ParentOf(entry.new_path) THEN "rename"
    ELSE "delete"

determine_rollback_action(entry, fs) ==
    IF ~Exists(fs, entry.new_path) THEN "skip_not_found"
    ELSE IF ParentOf(entry.old_path) = ParentOf(entry.new_path)
         THEN (IF Exists(fs, entry.old_path) THEN "skip_collision" ELSE "rename")
    ELSE "delete"

\* the file system without the file at path
RemoveFile(fs, path) ==
    [fs EXCEPT ![path.dir].files =
        [n \in DOMAIN fs[path.dir].files \ {path.name} |-> fs[path.dir].files[n]]]

\* new_path.rename(old_path) and new_path.unlink() raise: the file is missing,
\* or, on Windows, the target of the rename exists
OperationRaises(entry, act, fs, os) ==
    \/ ~Exists(fs, entry.new_path)
    \/ /\ act = "rename"
       /\ os = "nt"
       /\ entry.old_path # entry.new_path
       /\ Exists(fs, entry.old_path)

\* what execute_rollback_action returns: None or an error message
ExecuteMessage(entry, act, dry, fs, os) ==
    IF act \in {"rename", "delete"}
    THEN (IF ~dry /\ OperationRaises(entry, act, fs, os) THEN "operation failed" ELSE NoMessage)
    ELSE IF act = "skip_not_found" THEN NoMessage
    ELSE IF act = "skip_collision" THEN "collision: old_path exists"
    ELSE "unknown action"

\* the file system after execute_rollback_action
ExecuteFiles(entry, act, dry, fs, os) ==
    IF dry \/ act \notin {"rename", "delete"} \/ OperationRaises(entry, act, fs, os) THEN fs
    ELSE IF act = "rename"
         THEN WriteFile(fs, PathOf(entry.new_path), PathOf(entry.old_path), TRUE)
    ELSE RemoveFile(fs, PathOf(entry.new_path))

\* RollbackResult(success_count, failure_count, skip_count, errors)
RollbackResult(success_count, failure_count, skip_count, error_dicts) ==
    [success_count |-> success_count, failure_count |-> failure_count,
     skip_count |-> skip_count, errors |-> error_dicts]

\* lines 206-218: the counters and the errors after one entry
Counted(r, entry, act, message) ==
    IF message = NoMessage
    THEN (IF act \in {"rename", "delete"}
          THEN [r EXCEPT !.success_count = @ + 1]
          ELSE [r EXCEPT !.skip_count = @ + 1])
    ELSE [r EXCEPT !.failure_count = @ + 1,
                   !.errors = Append(@, [original_path |-> entry.new_path,
                                         error_type |-> "ROLLBACK_ERROR"])]

\* one turn of the loop of rollback_from_tsv: lines 200-218
RollbackEntryStep(entry) ==
    \E act \in {determine_rollback_action(entry, dirs)} :
       \E message \in {ExecuteMessage(entry, act, dry_run, dirs, platform)} :
          /\ action' = act
          /\ rollback_error' = message
          /\ dirs' = ExecuteFiles(entry, act, dry_run, dirs, platform)
          /\ rollback_result' = Counted(rollback_result, entry, act, message)
          /\ entry_index' = entry_index + 1
          /\ UNCHANGED <<entries, dry_run>>

----------------------------------------------------------------------------
(* The specification of the rollback: entries and directories are drawn in   *)
(* Init, and the loop of rollback_from_tsv takes one entry after another     *)

MaxEntries == 2

OldPaths == {PathStr([dir |-> "src", name |-> n]) : n \in {NameA, NameB}}
NewPaths ==
    {PathStr([dir |-> "src", name |-> NameT]), PathStr([dir |-> "out", name |-> NameT]),
     PathStr([dir |-> "src", name |-> NameA]), PathStr([dir |-> "out", name |-> NameA])}

RollbackEntries == {RollbackEntry(old_path, new_path) : old_path \in OldPaths, new_path \in NewPaths}

InitRollback ==
    /\ \E src_files \in SUBSET {NameA, NameB, NameT}, out_files \in SUBSET {NameA, NameT},
          out_exists \in BOOLEAN :
          /\ (~out_exists => out_files = {})
          /\ dirs = [d \in DirNames |->
                [exists |-> IF d = "src" THEN TRUE ELSE out_exists,
                 files |-> [n \in (IF d = "src" THEN src_files ELSE out_files) |->
                               IF n = NameA THEN 1 ELSE IF n = NameB THEN 2 ELSE 3],
                 filler |-> 0]]
    /\ platform \in {"posix", "nt"}
    /\ \E k \in 1..MaxEntries : entries \in [1..k -> RollbackEntries]
    /\ dry_run \in BOOLEAN
    /\ entry_index = 1
    /\ action = NotCalled
    /\ rollback_error = NotCalled
    /\ rollback_result = RollbackResult(0, 0, 0, <<>>)
    /\ now = Idle /\ strict_mode = Idle /\ operation_log = Idle
    /\ result = Idle /\ raised = Idle /\ calls = Idle
    /\ NamerIdle /\ TruncIdle /\ CollideIdle /\ ParseIdle /\ PureIdle /\ RaceIdle /\ TsvIdle /\ ApplyIdle

RollbackNext ==
    /\ entry_index <= Len(entries)
    /\ RollbackEntryStep(entries[entry_index])
    /\ UNCHANGED <<platform, now, strict_mode, operation_log, result, raised, calls>>
    /\ UNCHANGED <<namerVars, truncVars, collideVars, parseVars, pureVars, raceVars, tsvVars, applyVars>>

NextRollback == RollbackNext

SpecRollback == InitRollback /\ [][NextRollback]_vars

\* the action the table gives for an entry: the paths compared as paths
TableAction(old, new, fs) ==
    IF ~FileExists(fs, new.dir, new.name) THEN "skip_not_found"
    ELSE IF old.dir = new.dir
         THEN (IF FileExists(fs, old.dir, old.name) THEN "skip_collision" ELSE "rename")
    ELSE "delete"

\* the file system after new was moved back to old
MovedBack(old, new, fs1, fs2) ==
    /\ ~FileExists(fs2, new.dir, new.name)
    /\ FileExists(fs2, old.dir, old.name)
    /\ Content(fs2, old.dir, old.name) = Content(fs1, new.dir, new.name)
    /\ OthersUnchanged(fs1, fs2, old.dir, {old.name, new.name})

\* the file system after new was deleted
Deleted(new, fs1, fs2) ==
    /\ ~FileExists(fs2, new.dir, new.name)
    /\ OthersUnchanged(fs1, fs2, new.dir, {new.name})
    /\ \A d \in DirNames \ {new.dir} : fs2[d] = fs1[d]

\* C24: for every entry the action is skip_not_found when new_path does not
\* exist; otherwise, old_path and new_path in one directory, skip_collision
\* when old_path exists and rename when it does not; otherwise delete.  In
\* dry-run mode no action changes the file system; otherwise rename moves
\* new_path back to old_path, delete removes new_path and the two skips change
\* nothing.
C24_RollbackActions ==
    [][entry_index' = entry_index + 1 =>
          LET old == PathOf(entries[entry_index].old_path)
              new == PathOf(entries[entry_index].new_path)
          IN /\ action' = TableAction(old, new, dirs)
             /\ dry_run => dirs' = dirs
             /\ (~dry_run /\ action' = "rename") => MovedBack(old, new, dirs, dirs')
             /\ (~dry_run /\ action' = "delete") => Deleted(new, dirs, dirs')
             /\ action' \in {"skip_not_found", "skip_collision"} => dirs' = dirs]_vars

\* the copy out/t.pdf was deleted, then src/t.pdf was renamed back to
\* src/b.pdf: two successes
C24_Witness ==
    /\ entry_index = 3
    /\ dry_run = FALSE
    /\ entries = <<RollbackEntry(PathStr([dir |-> "src", name |-> NameA]),
                                 PathStr([dir |-> "out", name |-> NameT])),
                   RollbackEntry(PathStr([dir |-> "src", name |-> NameB]),
                                 PathStr([dir |-> "src", name |-> NameT]))>>
    /\ action = "rename"
    /\ rollback_result.success_count = 2
    /\ ~FileExists(dirs, "out", NameT)
    /\ ~FileExists(dirs, "src", NameT)
    /\ FileExists(dirs, "src", NameB)

\* a dry run met all of rename, delete and a skip and changed nothing
C24_WitnessDryRun ==
    /\ entry_index = 3
    /\ dry_run = TRUE
    /\ action = "delete"
    /\ rollback_result.success_count = 2
    /\ FileExists(dirs, "out", NameT)

----------------------------------------------------------------------------
(* cli.cmd_apply *)

\* a str is less than another as Python compares strs: by the code point at
\* the first position where they differ, a proper prefix being less
CommonPrefix(a, b) ==
    SetMax({k \in 0..(IF Len(a) < Len(b) THEN Len(a) ELSE Len(b)) :
               SubSeq(a, 1, k) = SubSeq(b, 1, k)})

StrLess(a, b) ==
    IF CommonPrefix(a, b) = Len(a) THEN Len(b) > Len(a)
    ELSE IF CommonPrefix(a, b) = Len(b) THEN FALSE
    ELSE a[CommonPrefix(a, b) + 1] < b[CommonPrefix(a, b) + 1]

RECURSIVE SortedNames(_)
\* sorted(names)
SortedNames(names) ==
    IF names = {} THEN <<>>
    ELSE LET least == CHOOSE x \in names : \A y \in names \ {x} : StrLess(x, y)
         IN <<least>> \o SortedNames(names \ {least})

\* find_pdfs(base, max_files) for the directory base: the PDFs of the
\* directory in sorted order, the first max_files of them
find_pdfs(fs, base, max_files) ==
    LET candidates == SortedNames(DOMAIN fs[base].files)
        kept == IF Len(candidates) > max_files THEN SubSeq(candidates, 1, max_files)
                ELSE candidates
    IN [j \in 1..Len(kept) |-> [dir |-> base, name |-> kept[j]]]

\* args.outdir is not given
NoDir == "None"

\* ProcessResult with the attributes cmd_apply sets on it
ProcessResult(path, status, new_name, notes, actual_new_path) ==
    [path |-> path, status |-> status, new_name |-> new_name, notes |-> notes,
     actual_new_path |-> actual_new_path]

\* what _process_single_pdf returns for a PDF: the result of an exception in
\* analyze_pdf, parse_info or generate_filename, or the result with the name
\* generate_filename gives for the information parse_info found
ErrorResult(path) == ProcessResult(PathStr(path), "ERROR", NoneStr, "Exception", <<>>)
_process_single_pdf(path, parsed) ==
    ProcessResult(PathStr(path), "OK", PyStr(generate_filename(parsed, path.name)), "", <<>>)

\* an entry of errors
ErrorEntry(path, error_type, message) ==
    [original_path |-> PathStr(path), error_type |-> error_type,
     error_message |-> message, timestamp |-> IsoNow]

\* the mutant: the two paths change places
CreateEntrySwapped(old_path, new_path, kind, notes) ==
    [old_path |-> new_path, new_path |-> old_path, kind |-> kind, notes |-> notes]

\* create_rollback_entry(original_path, new_path, kind, ..., notes); the
\* fields name, amount and timestamp, which no path depends on, are left out
create_rollback_entry(old_path, new_path, kind, notes) ==
    [old_path |-> old_path, new_path |-> new_path, kind |-> kind, notes |-> notes]

\* continue, or the end of an iteration: the loop goes to the next PDF or ends
LoopContinue ==
    IF apply_index < Len(pdfs)
    THEN apply_index' = apply_index + 1 /\ apply_pc' = "analyse"
    ELSE apply_index' = apply_index /\ apply_pc' = "finish"

\* break
LoopBreak == apply_index' = apply_index /\ apply_pc' = "finish"

\* lines 240-263: _process_single_pdf is called on the PDF; parsed is the
\* information of its text, failed tells that the analysis raised
AnalyseStep(parsed, failed) ==
    /\ apply_pc = "analyse"
    /\ analysed' = Append(analysed, pdfs[apply_index])
    /\ IF failed \/ ~FileExists(dirs, pdfs[apply_index].dir, pdfs[apply_index].name)
       THEN /\ stats' = [stats EXCEPT !.errors = @ + 1]
            /\ errors' = Append(errors, ErrorEntry(pdfs[apply_index],
                                                   "PDF_PROCESSING_ERROR", "Exception"))
            /\ results' = Append(results, ErrorResult(pdfs[apply_index]))
            /\ LoopContinue
            /\ UNCHANGED process_result
       ELSE /\ process_result' = [kind |-> parsed.kind,
                                  row |-> _process_single_pdf(pdfs[apply_index], parsed)]
            /\ apply_pc' = "operate"
            /\ UNCHANGED <<apply_index, stats, errors, results>>
    /\ UNCHANGED <<pdfs, outdir, rollback_entries, exit_code, rollback_tsv, apply_tsv>>

\* lines 273-342 after the file operation returned file_result or raised
AfterOperation(path, file_result, has_raised) ==
    IF has_raised
    THEN /\ stats' = [stats EXCEPT !.errors = @ + 1]
         /\ results' = Append(results, ProcessResult(PathStr(path), "ERROR", NoneStr,
                                                     "Unexpected error", <<>>))
         /\ errors' = Append(errors, ErrorEntry(path, "UNEXPECTED_ERROR",
                                                file_result.error_message))
         /\ (IF strict_mode THEN LoopBreak ELSE LoopContinue)
         /\ UNCHANGED rollback_entries
    ELSE IF file_result.success
    THEN /\ stats' = [stats EXCEPT !.success = @ + 1]
         /\ rollback_entries' =
               Append(rollback_entries,
                      create_rollback_entry(PathStr(path), PathStr(file_result.final_path),
                                            process_result.kind, file_result.operation_type))
         /\ results' = Append(results,
                              [process_result.row EXCEPT
                                  !.notes = "Applied",
                                  !.actual_new_path = PathStr(file_result.final_path)])
         /\ LoopContinue
         /\ UNCHANGED errors
    ELSE /\ stats' = [stats EXCEPT !.errors = @ + 1]
         /\ errors' = Append(errors, ErrorEntry(path, "FILE_OPERATION_ERROR",
                                                file_result.error_message))
         /\ IF strict_mode
            THEN LoopBreak /\ UNCHANGED results
            ELSE /\ results' = Append(results,
                                      [process_result.row EXCEPT
                                          !.status = "ERROR",
                                          !.notes = "File operation failed"])
                 /\ LoopContinue
         /\ UNCHANGED rollback_entries

\* lines 265-342: the file is copied or renamed and the outcome is recorded
OperateStep(fault) ==
    /\ apply_pc = "operate"
    /\ IF outdir # NoDir
       THEN copy_file(pdfs[apply_index], process_result.row.new_name.v, outdir, fault)
       ELSE rename_file(pdfs[apply_index], process_result.row.new_name.v, fault)
    /\ AfterOperation(pdfs[apply_index], result', raised')
    /\ UNCHANGED <<pdfs, outdir, process_result, analysed, exit_code, rollback_tsv, apply_tsv>>

\* of the seven columns of the rollback TSV, the four the run fills from the
\* operation (name, amount and timestamp are read by no step of the rollback)
RollbackHeaders == <<"old_path", "new_path", "kind", "notes">>

\* the rows write_rollback_tsv and write_apply_tsv write
RollbackRow(op) == <<op.old_path, op.new_path, op.kind, op.notes>>
write_rollback_tsv(operations) ==
    File(<<RollbackHeaders>> \o [j \in 1..Len(operations) |-> RollbackRow(operations[j])])
write_apply_tsv(rows) == File(rows)

\* lines 344-396: the TSVs are written and the exit code is returned
FinishStep ==
    /\ apply_pc = "finish"
    /\ rollback_tsv' = IF rollback_entries # <<>> THEN write_rollback_tsv(rollback_entries)
                       ELSE rollback_tsv
    /\ apply_tsv' = write_apply_tsv(results)
    /\ IF errors # <<>> THEN write_error_tsv(errors, TRUE, FALSE)
       ELSE UNCHANGED <<error_tsv, error_calls, error_written>>
    /\ exit_code' = PyInt(IF stats.errors > 0 THEN 1 ELSE 0)
    /\ apply_pc' = "done"
    /\ UNCHANGED <<pdfs, outdir, apply_index, process_result, analysed, results,
                   rollback_entries, errors, stats>>

\* parse_tsv_file: the rows after the header with an old_path and a new_path
RowEntry(row) == RollbackEntry(row[1], row[2])
HasPaths(row) == row[1] # <<>> /\ row[2] # <<>>
parse_tsv_file(file) ==
    LET rows == SelectSeq(SubSeq(file.v, 2, Len(file.v)), HasPaths)
    IN [j \in 1..Len(rows) |-> RowEntry(rows[j])]

----------------------------------------------------------------------------
(* The specification of a run of cmd_apply on the directory src, followed by *)
(* rollback_from_tsv on the rollback TSV the run wrote                       *)

NameKanji == <<29289, 46, 112, 100, 102>>    \* 物.pdf
NameTagged == <<12304, 12381, 12398, 20182, 12305, 29289, 95, 26410, 30906, 23450, 46, 112, 100, 102>>    \* 【その他】物_未確定.pdf
ApplyFiles == {NameA, NameTagged, NameKanji}

\* what parse_info finds in the text of a PDF: nothing, or a sale
InfoNothing == [kind |-> "unknown", name |-> NoneStr, amount |-> NoneInt]
InfoSale == [kind |-> "sell", name |-> PyStr(NameGrand), amount |-> PyInt(85000000)]
ApplyInfos == {InfoNothing, InfoSale}

InitApply ==
    /\ outdir \in {NoDir, "out"}
    /\ \E src_files \in SUBSET ApplyFiles, out_files \in SUBSET {NameTagged},
          out_exists \in BOOLEAN :
          /\ (~out_exists => out_files = {})
          /\ (outdir = NoDir => ~out_exists)
          /\ dirs = [d \in DirNames |->
                [exists |-> IF d = "src" THEN TRUE ELSE out_exists,
                 files |-> [n \in (IF d = "src" THEN src_files ELSE out_files) |->
                               IF n = NameA THEN 1 ELSE IF n = NameTagged THEN 2 ELSE 3],
                 filler |-> 0]]
    /\ platform \in {"posix", "nt"}
    /\ now = ClockStart
    /\ strict_mode \in BOOLEAN
    /\ operation_log = <<>>
    /\ result = NotCalled
    /\ raised = FALSE
    /\ calls = 0
    /\ pdfs = find_pdfs(dirs, "src", MaxCalls)
    /\ apply_pc = IF pdfs = <<>> THEN "finish" ELSE "analyse"
    /\ apply_index = 1
    /\ process_result = NotCalled
    /\ analysed = <<>>
    /\ results = <<>>
    /\ rollback_entries = <<>>
    /\ errors = <<>>
    /\ stats = [total |-> Len(pdfs), success |-> 0, errors |-> 0]
    /\ exit_code = NotCalled
    /\ rollback_tsv = NoFile
    /\ apply_tsv = NoFile
    /\ error_tsv = NoFile
    /\ error_calls = <<>>
    /\ error_written = NotCalled
    /\ entries = <<>>
    /\ dry_run \in BOOLEAN
    /\ entry_index = 1
    /\ action = NotCalled
    /\ rollback_error = NotCalled
    /\ rollback_result = RollbackResult(0, 0, 0, <<>>)
    /\ NamerIdle /\ TruncIdle /\ CollideIdle /\ ParseIdle /\ PureIdle /\ RaceIdle

Analyse ==
    /\ \E parsed \in ApplyInfos, failed \in BOOLEAN : AnalyseStep(parsed, failed)
    /\ UNCHANGED <<fsVars, tsvVars, rollbackVars>>
    /\ UNCHANGED <<namerVars, truncVars, collideVars, parseVars, pureVars, raceVars>>

\* another process removes the PDF between its analysis and its file operation
Vanish ==
    /\ apply_pc = "operate"
    /\ FileExists(dirs, pdfs[apply_index].dir, pdfs[apply_index].name)
    /\ dirs' = RemoveFile(dirs, pdfs[apply_index])
    /\ UNCHANGED <<platform, now, strict_mode, operation_log, result, raised, calls>>
    /\ UNCHANGED <<applyVars, tsvVars, rollbackVars>>
    /\ UNCHANGED <<namerVars, truncVars, collideVars, parseVars, pureVars, raceVars>>

Operate ==
    /\ \E fault \in BOOLEAN : OperateStep(fault)
    /\ UNCHANGED <<tsvVars, rollbackVars>>
    /\ UNCHANGED <<namerVars, truncVars, collideVars, parseVars, pureVars, raceVars>>

Finish ==
    /\ FinishStep
    /\ UNCHANGED <<fsVars, rollbackVars>>
    /\ UNCHANGED <<namerVars, truncVars, collideVars, parseVars, pureVars, raceVars>>

\* rollback_from_tsv is started on the rollback TSV: line 187
RollbackStart ==
    /\ apply_pc = "done"
    /\ rollback_tsv # NoFile
    /\ entries' = parse_tsv_file(rollback_tsv)
    /\ apply_pc' = "rollback"
    /\ UNCHANGED <<dry_run, entry_index, action, rollback_error, rollback_result>>
    /\ UNCHANGED <<pdfs, outdir, apply_index, process_result, analysed, results,
                   rollback_entries, errors, stats, exit_code, rollback_tsv, apply_tsv>>
    /\ UNCHANGED <<fsVars, tsvVars>>
    /\ UNCHANGED <<namerVars, truncVars, collideVars, parseVars, pureVars, raceVars>>

NextApply == Analyse \/ Vanish \/ Operate \/ Finish \/ RollbackStart \/ RollbackNext

SpecApply == InitApply /\ [][NextApply]_vars

----------------------------------------------------------------------------
(* cmd_apply: strict mode, the result rows, the rollback entries *)

\* C21: with --strict, once a PDF has ended in an error of any type no later
\* PDF is analysed, renamed or copied: the error is the only one, and it is
\* the error of the PDF analysed last.
C21_StrictStopsAtFirstError ==
    (strict_mode /\ errors # <<>>) =>
        /\ Len(errors) = 1
        /\ errors[1].original_path = PathStr(analysed[Len(analysed)])

\* C26: at the end of the run every processed PDF has one row in the apply
\* results: the number of rows is stats.success + stats.errors, the rows are
\* those of the PDFs analysed, in order, and the exit code is 1 exactly when
\* stats.errors > 0.
C26_OneRowPerPdf ==
    apply_pc = "done" =>
        /\ Len(results) = stats.success + stats.errors
        /\ Len(results) = Len(analysed)
        /\ \A j \in 1..Len(results) : results[j].path = PathStr(analysed[j])
        /\ apply_tsv = File(results)
        /\ exit_code = PyInt(IF stats.errors > 0 THEN 1 ELSE 0)

\* the operations of the log that succeeded
IsSuccess(op) == op.success
Succeeded == SelectSeq(operation_log, IsSuccess)

\* C27: the rollback entries are the successful renames and copies, in order,
\* with old_path the original path and new_path the final path of the
\* operation; there are stats.success of them, and no PDF that ended in an
\* error has one.
C27_RollbackEntryIffSuccess ==
    /\ Len(rollback_entries) = stats.success
    /\ Len(rollback_entries) = Len(Succeeded)
    /\ \A j \in 1..Len(rollback_entries) :
          /\ rollback_entries[j].old_path = PathStr(Succeeded[j].original_path)
          /\ rollback_entries[j].new_path = PathStr(Succeeded[j].final_path)
    /\ \A j \in 1..Len(errors), k \in 1..Len(rollback_entries) :
          errors[j].original_path # rollback_entries[k].old_path
    /\ apply_pc \in {"done", "rollback"} =>
          rollback_tsv = IF rollback_entries = <<>> THEN NoFile
                         ELSE write_rollback_tsv(rollback_entries)

\* both PDFs got the name of the same sale: the second rename was resolved to
\* the numbered name, and the entries hold the original and the final paths
C27_Witness ==
    /\ apply_pc = "done"
    /\ outdir = NoDir
    /\ stats.success = 2
    /\ Len(rollback_entries) = 2
    /\ rollback_entries[1].old_path = PathStr([dir |-> "src", name |-> NameA])
    /\ rollback_entries[1].new_path =
          PathStr([dir |-> "src", name |-> generate_filename(InfoSale, NameA)])
    /\ rollback_entries[2].old_path = PathStr([dir |-> "src", name |-> NameTagged])
    /\ rollback_entries[2].new_path =
          PathStr([dir |-> "src",
                   name |-> NumberedName(generate_filename(InfoSale, NameA), 1)])

\* the content of the files of the run, by their original names
OriginalContent(name) == IF name = NameA THEN 1 ELSE IF name = NameTagged THEN 2 ELSE 3

\* the rollback has gone through all entries
RollbackEnded == apply_pc = "rollback" /\ entry_index > Len(entries)

\* C28: after a rename-mode apply and a rollback of its rollback TSV, every
\* file that was renamed is back at its original path, with its content.
C28_RoundTrip ==
    (RollbackEnded /\ ~dry_run /\ outdir = NoDir) =>
        \A j \in 1..Len(rollback_entries) :
           /\ Exists(dirs, rollback_entries[j].old_path)
           /\ Content(dirs, "src", NameOf(rollback_entries[j].old_path)) =
                 OriginalContent(NameOf(rollback_entries[j].old_path))
=============================================================================
